---- MODULE Spec2Model ----
(***************************************************************************)
(* A model of the slotlist backend: the permission evaluator of            *)
(* backend/api/auth.py, the mission import of backend/api/import_utils     *)
(* with its two callers (management command and REST endpoint), and the    *)
(* request handlers of backend/api/routers (community, auth, user,         *)
(* mission).  A handler is modelled from its first statement to its        *)
(* return: its input is request.auth, the payload of the token the         *)
(* caller presented, and its result is the status it returns or raises;    *)
(* an exception it does not catch is the status 500.                       *)
(*                                                                         *)
(* A Python str is a sequence of one-character strings, so that lower()    *)
(* and split('.') are computed and not assumed.  A Python dict is the      *)
(* sequence of its items in insertion order, each item a record            *)
(* [key, value]; a nested dict is a sequence of such records whose values  *)
(* are again dicts.                                                        *)
(***************************************************************************)
EXTENDS Integers, Sequences, FiniteSets, TLC

VARIABLES
    op,                  \* the function of auth.py that was called last
    permissions,         \* its argument `permissions`: a list of str
    target_permissions,  \* its argument `target_permissions`: str or list
    parsed_permissions,  \* the tree parse_permissions built
    granted,             \* the value has_permission returned
    db,                  \* the tables the mission import reads and writes
    savepoint,           \* <<the tables at the start of the open transaction>>
    imp,                 \* the position of the running import
    outcome,             \* how the last import call ended
    tables,              \* the tables the request handlers read and write
    response,            \* the last request a handler answered, with its answer
    requests             \* the requests in progress, each with the worker that runs it

authVars == <<op, permissions, target_permissions, parsed_permissions, granted>>

importVars == <<db, savepoint, imp, outcome>>

apiVars == <<tables, response, requests>>

vars == <<authVars, importVars, apiVars>>

\* what the calls of one part leave alone
notAuthVars == <<importVars, apiVars>>
notImportVars == <<authVars, apiVars>>
notApiVars == <<authVars, importVars>>

-----------------------------------------------------------------------------
(* Bounds of the permission inputs *)

MaxSegs == 3
MaxPerms == 2
MaxTargets == 2
MaxListSegs == 2

(* Bounds of the imported data: slot groups of a mission, slots of a group *)

MaxGroups == 2
MaxSlots == 2

None == "None"

(* The state in which no import has run yet *)

EmptyDb ==
    [communities |-> {}, users |-> {}, missions |-> {},
     slotGroups |-> {}, slots |-> {}, registrations |-> {}]

Idle == [pc |-> "idle"]

Responded == [pc |-> "responded"]

NoOutcome == [kind |-> None]

(* The state in which no request has been handled yet *)

EmptyTables ==
    [communities |-> {}, users |-> {}, permissions |-> {}, applications |-> {},
     missions |-> {}, slotGroups |-> {}, slots |-> {}, registrations |-> {}]

NoResponse == [handler |-> None]

NoRequests == {}

-----------------------------------------------------------------------------
(* str *)

DOT == "."
STAR == <<"*">>
ADMIN_SUPERADMIN ==
    <<"a", "d", "m", "i", "n", ".", "s", "u", "p", "e", "r", "a", "d", "m", "i", "n">>

UpperChars ==
    <<"A", "B", "C", "D", "E", "F", "G", "H", "I", "J", "K", "L", "M",
      "N", "O", "P", "Q", "R", "S", "T", "U", "V", "W", "X", "Y", "Z">>
LowerChars ==
    <<"a", "b", "c", "d", "e", "f", "g", "h", "i", "j", "k", "l", "m",
      "n", "o", "p", "q", "r", "s", "t", "u", "v", "w", "x", "y", "z">>

\* the lower-case letter of each capital letter
LowerOf ==
    [c \in {UpperChars[i] : i \in DOMAIN UpperChars} |->
        LowerChars[CHOOSE i \in DOMAIN UpperChars : UpperChars[i] = c]]

lower_char(c) == IF c \in DOMAIN LowerOf THEN LowerOf[c] ELSE c

upper_char(c) ==
    IF \E i \in DOMAIN LowerChars : LowerChars[i] = c
    THEN UpperChars[CHOOSE i \in DOMAIN LowerChars : LowerChars[i] = c]
    ELSE c

\* str.lower()
lower(s) == [i \in 1..Len(s) |-> lower_char(s[i])]

\* str.upper()
upper(s) == [i \in 1..Len(s) |-> upper_char(s[i])]

\* str.split(sep): always at least one part, empty parts are kept
RECURSIVE split(_, _)
split(s, sep) ==
    IF \E i \in 1..Len(s) : s[i] = sep
    THEN LET i == CHOOSE k \in 1..Len(s) :
                      s[k] = sep /\ \A j \in 1..(k - 1) : s[j] # sep
         IN <<SubSeq(s, 1, i - 1)>> \o split(SubSeq(s, i + 1, Len(s)), sep)
    ELSE <<s>>

\* sep.join(parts), used to write the input strings
RECURSIVE join(_, _)
join(parts, sep) ==
    IF Len(parts) = 0 THEN <<>>
    ELSE IF Len(parts) = 1 THEN parts[1]
    ELSE parts[1] \o <<sep>> \o join(Tail(parts), sep)

-----------------------------------------------------------------------------
(* dict *)

EmptyDict == <<>>

DictHas(d, k) == \E i \in DOMAIN d : d[i].key = k

DictIndex(d, k) == CHOOSE i \in DOMAIN d : d[i].key = k

-----------------------------------------------------------------------------
(* auth.py *)

\* parse_parts without the test `if part not in current`
RECURSIVE parse_parts_always_new(_, _)
parse_parts_always_new(current, parts) ==
    IF Len(parts) = 0 THEN current
    ELSE LET cur1 == Append(current, [key |-> Head(parts), value |-> EmptyDict])
         IN [cur1 EXCEPT ![Len(cur1)].value = parse_parts_always_new(@, Tail(parts))]

\* the inner loop of parse_permissions: `current` walks down, creating the
\* nodes that are missing
RECURSIVE parse_parts(_, _)
parse_parts(current, parts) ==
    IF Len(parts) = 0 THEN current
    ELSE LET part == Head(parts)
             cur1 == IF DictHas(current, part)
                     THEN current
                     ELSE Append(current, [key |-> part, value |-> EmptyDict])
             i    == DictIndex(cur1, part)
         IN [cur1 EXCEPT ![i].value = parse_parts(@, Tail(parts))]

RECURSIVE parse_from(_, _)
parse_from(parsed, perms) ==
    IF Len(perms) = 0 THEN parsed
    ELSE parse_from(parse_parts(parsed, split(lower(Head(perms)), DOT)), Tail(perms))

parse_permissions(perms) == parse_from(EmptyDict, perms)

\* find_permission on a target that is already a list of parts; find_items is
\* its `for current_key, next_tree in permission_tree.items()` from item i on
RECURSIVE find_parts(_, _)

\* find_items granting an exhausted target only at a leaf of the tree
RECURSIVE find_items_exact(_, _, _, _)
find_items_exact(permission_tree, i, perm_part, remaining_parts) ==
    IF i > Len(permission_tree) THEN FALSE
    ELSE IF permission_tree[i].key = STAR THEN TRUE
    ELSE IF permission_tree[i].key = perm_part
         THEN IF Len(remaining_parts) = 0
              THEN Len(permission_tree[i].value) = 0
              ELSE find_parts(permission_tree[i].value, remaining_parts)
    ELSE find_items_exact(permission_tree, i + 1, perm_part, remaining_parts)

RECURSIVE find_items(_, _, _, _)
find_items(permission_tree, i, perm_part, remaining_parts) ==
    IF i > Len(permission_tree) THEN FALSE
    ELSE IF permission_tree[i].key = STAR THEN TRUE
    ELSE IF permission_tree[i].key = perm_part
         THEN IF Len(remaining_parts) = 0
              THEN TRUE
              ELSE find_parts(permission_tree[i].value, remaining_parts)
    ELSE find_items(permission_tree, i + 1, perm_part, remaining_parts)

\* find_parts granting what lies below a leaf of the tree
find_parts_below_leaf(permission_tree, target_parts) ==
    IF Len(permission_tree) = 0 THEN TRUE
    ELSE IF Len(target_parts) = 0 THEN TRUE
    ELSE find_items(permission_tree, 1, Head(target_parts), Tail(target_parts))

find_parts(permission_tree, target_parts) ==
    IF Len(permission_tree) = 0 THEN FALSE
    ELSE IF Len(target_parts) = 0 THEN TRUE
    ELSE find_items(permission_tree, 1, Head(target_parts), Tail(target_parts))

\* target_parts_of without lower()
target_parts_as_written(target_permission) == split(target_permission, DOT)

\* the conversion of a str target to its parts
target_parts_of(target_permission) == split(lower(target_permission), DOT)

\* find_permission called with a str
find_permission(permission_tree, target_permission) ==
    find_parts(permission_tree, target_parts_of(target_permission))

\* has_permission without the check for global admin permissions
has_permission_no_bypass(perms, target) ==
    IF Len(perms) = 0 THEN FALSE
    ELSE LET parsed == parse_permissions(perms)
         IN IF target.type = "list"
            THEN \E i \in DOMAIN target.value :
                     find_permission(parsed, target.value[i])
            ELSE find_permission(parsed, target.value)

\* has_permission with all() in the place of any()
has_permission_all(perms, target) ==
    IF Len(perms) = 0 THEN FALSE
    ELSE LET parsed == parse_permissions(perms)
         IN IF DictHas(parsed, STAR) \/ find_permission(parsed, ADMIN_SUPERADMIN)
            THEN TRUE
            ELSE IF target.type = "list"
                 THEN \A i \in DOMAIN target.value :
                          find_permission(parsed, target.value[i])
                 ELSE find_permission(parsed, target.value)

\* a target is [type |-> "str", value |-> s] or [type |-> "list", value |-> <<s1, ...>>]
has_permission(perms, target) ==
    IF Len(perms) = 0 THEN FALSE
    ELSE LET parsed == parse_permissions(perms)
         IN IF DictHas(parsed, STAR) \/ find_permission(parsed, ADMIN_SUPERADMIN)
            THEN TRUE
            ELSE IF target.type = "list"
                 THEN \E i \in DOMAIN target.value :
                          find_permission(parsed, target.value[i])
                 ELSE find_permission(parsed, target.value)

-----------------------------------------------------------------------------
(* The inputs of the permission evaluator *)

SeqsUpTo(S, n) == UNION {[1..k -> S] : k \in 0..n}

Segments == {<<"a">>, <<"b">>, STAR}

AdminStrings ==
    {ADMIN_SUPERADMIN,
     <<"A", "d", "m", "i", "n", ".", "S", "u", "p", "e", "r", "A", "d", "m", "i", "n">>,
     <<"a", "d", "m", "i", "n", ".", "a">>,
     <<"a", "d", "m", "i", "n", ".", "*">>}

MixedCaseStrings ==
    {<<"A">>, <<"A", ".", "b">>, <<"a", ".", "B">>, <<"A", ".", "B", ".", "a">>}

\* the dotted strings of 1..MaxSegs segments, the admin permissions and some
\* strings with capital letters
Strings ==
    {join(s, DOT) : s \in SeqsUpTo(Segments, MaxSegs) \ {<<>>}}
    \cup AdminStrings \cup MixedCaseStrings

PermissionLists == SeqsUpTo(Strings, MaxPerms)

ListSegments == {<<"a">>, <<"b">>}

ListStrings == {join(s, DOT) : s \in SeqsUpTo(ListSegments, MaxListSegs) \ {<<>>}}

StrTargets == {[type |-> "str", value |-> s] : s \in Strings}

ListTargets == {[type |-> "list", value |-> l] : l \in SeqsUpTo(ListStrings, MaxTargets)}

-----------------------------------------------------------------------------
(* The calls of the permission evaluator *)

\* the caller holds some list of permissions; no import runs
AuthInit ==
    /\ op = None
    /\ permissions \in PermissionLists
    /\ target_permissions = None
    /\ parsed_permissions = None
    /\ granted = None
    /\ db = EmptyDb
    /\ savepoint = <<>>
    /\ imp = Idle
    /\ outcome = NoOutcome
    /\ tables = EmptyTables
    /\ response = NoResponse
    /\ requests = NoRequests

CallParsePermissions ==
    /\ op = None
    /\ op' = "parse_permissions"
    /\ parsed_permissions' = parse_permissions(permissions)
    /\ UNCHANGED <<permissions, target_permissions, granted>>
    /\ UNCHANGED notAuthVars

CallHasPermission(target) ==
    /\ op = None
    /\ op' = "has_permission"
    /\ target_permissions' = target
    /\ granted' = has_permission(permissions, target)
    /\ UNCHANGED <<permissions, parsed_permissions>>
    /\ UNCHANGED notAuthVars

AuthNext ==
    \/ CallParsePermissions
    \/ \E target \in StrTargets : CallHasPermission(target)
    \/ \E target \in ListTargets : CallHasPermission(target)

SpecAuth == AuthInit /\ [][AuthNext]_vars

-----------------------------------------------------------------------------
(* models.py: the rows of the tables, by the columns the import decides on. *)
(* A Mission is identified by its slug (unique); its uid is a fresh uuid4.  *)
(* A missing foreign key and a missing optional value of the remote data    *)
(* are None, respectively the empty sequence.                               *)

(* The data the remote API can answer with *)

MissionSlugs == {"m1", "m2"}
UserUids == {"u1", "u2"}
GroupUids == {"g1"}
SlotUids == {"s1", "s2"}
RegistrationUids == {"r1"}

\* two communities of the remote data that carry the same slug
CommunityData ==
    {[uid |-> "c1", slug |-> "alpha"],
     [uid |-> "c2", slug |-> "alpha"]}

Optional(S) == {<<>>} \cup {<<x>> : x \in S}

\* the creator of a mission comes with or without a community
UserData == [uid : {"u1"}, community : Optional(CommunityData)]

MissionData ==
    [slug : MissionSlugs, creator : Optional(UserData), community : Optional(CommunityData)]

\* the assignee of a slot comes without a community, as in the test data
AssigneeData == [uid : {"u2"}, community : {<<>>}]

SlotData ==
    [uid : SlotUids,
     restrictedCommunity : Optional(CommunityData),
     assignee : Optional(AssigneeData),
     registrationUid : RegistrationUids \cup {None}]

\* what fetch_mission_data meets: an exception of the HTTP calls, or the data
NoMission == [slug |-> None, creator |-> <<>>, community |-> <<>>]

Fetched ==
    {[raised |-> e, mission_data |-> NoMission] : e \in {"RequestException", "Exception"}}
    \cup {[raised |-> None, mission_data |-> m] : m \in MissionData}

-----------------------------------------------------------------------------
(* import_utils.py *)

\* Community.objects.get_or_create(uid=..., defaults={... 'slug': ...}):
\* the slug column is unique
get_or_create_community(d, community_data) ==
    IF \E c \in d.communities : c.uid = community_data.uid
    THEN [db |-> d, raised |-> FALSE, uid |-> community_data.uid]
    ELSE IF \E c \in d.communities : c.slug = community_data.slug
    THEN [db |-> d, raised |-> TRUE, uid |-> None]
    ELSE [db |-> [d EXCEPT !.communities =
                      @ \cup {[uid |-> community_data.uid, slug |-> community_data.slug]}],
          raised |-> FALSE, uid |-> community_data.uid]

\* get_or_create_user for user data that is not None
get_or_create_user(d, user_data) ==
    LET rc == IF Len(user_data.community) > 0
              THEN get_or_create_community(d, user_data.community[1])
              ELSE [db |-> d, raised |-> FALSE, uid |-> None]
        d1 == rc.db
    IN IF rc.raised
       THEN [db |-> d1, raised |-> TRUE, uid |-> None]
       ELSE IF \E u \in d1.users : u.uid = user_data.uid
       THEN LET u == CHOOSE x \in d1.users : x.uid = user_data.uid
            IN IF rc.uid # None /\ u.community # rc.uid
               THEN [db |-> [d1 EXCEPT !.users =
                                 (@ \ {u}) \cup {[u EXCEPT !.community = rc.uid]}],
                     raised |-> FALSE, uid |-> u.uid]
               ELSE [db |-> d1, raised |-> FALSE, uid |-> u.uid]
       ELSE [db |-> [d1 EXCEPT !.users =
                         @ \cup {[uid |-> user_data.uid, community |-> rc.uid]}],
             raised |-> FALSE, uid |-> user_data.uid]

\* leaving `with transaction.atomic()` without the rollback on an exception
atomic_exit_keeps_writes(saved, current, raised) == current

\* leaving `with transaction.atomic()`: an exception rolls back to the state
\* at its entry
atomic_exit(saved, current, raised) == IF raised THEN saved ELSE current

\* the creator of import_mission: the user creator_uid names, or the creator
\* of the data, got or created outside the transaction
import_creator(d, creator_uid, mission_data) ==
    IF creator_uid # None
    THEN IF \E u \in d.users : u.uid = creator_uid
         THEN [db |-> d, exc |-> None, uid |-> creator_uid]
         ELSE [db |-> d, exc |-> "CreatorNotFoundError", uid |-> None]
    ELSE IF Len(mission_data.creator) = 0
         THEN [db |-> d, exc |-> "CreatorNotFoundError", uid |-> None]
         ELSE LET r == get_or_create_user(d, mission_data.creator[1])
              IN [db |-> r.db,
                  exc |-> IF r.raised THEN "IntegrityError" ELSE None,
                  uid |-> r.uid]

\* the first two statements inside the transaction: the community of the
\* mission and Mission.objects.create (the slug column is unique)
import_create_mission(d, creator, mission_data) ==
    IF Len(mission_data.community) = 0
    THEN [db |-> d, exc |-> "TypeError"]
    ELSE LET rc == get_or_create_community(d, mission_data.community[1])
         IN IF rc.raised \/ \E m \in rc.db.missions : m.slug = mission_data.slug
            THEN [db |-> rc.db, exc |-> "IntegrityError"]
            ELSE [db |-> [rc.db EXCEPT !.missions =
                              @ \cup {[slug |-> mission_data.slug,
                                       creator |-> creator,
                                       community |-> rc.uid]}],
                  exc |-> None]

\* import_mission_begin without the check for an existing mission
import_mission_begin_unchecked(d, creator_uid, mission_data) ==
    LET ru == import_creator(d, creator_uid, mission_data)
        d1 == ru.db
        rm == import_create_mission(d1, ru.uid, mission_data)
    IN IF ru.exc # None
       THEN [db |-> d1, saved |-> d1, exc |-> ru.exc, creator |-> ru.uid]
       ELSE [db |-> atomic_exit(d1, rm.db, rm.exc # None), saved |-> d1,
             exc |-> rm.exc, creator |-> ru.uid]

\* import_mission up to the call of _import_slots: the creator, the check
\* for an existing mission, and the first two statements in the transaction.
\* exc is the exception raised, None when _import_slots is reached.
import_mission_begin(d, creator_uid, mission_data) ==
    LET ru == import_creator(d, creator_uid, mission_data)
        d1 == ru.db
        rm == import_create_mission(d1, ru.uid, mission_data)
    IN IF ru.exc # None
       THEN [db |-> d1, saved |-> d1, exc |-> ru.exc, creator |-> ru.uid]
       ELSE IF \E m \in d1.missions : m.slug = mission_data.slug
       THEN [db |-> d1, saved |-> d1, exc |-> "MissionAlreadyExistsError",
             creator |-> ru.uid]
       ELSE [db |-> atomic_exit(d1, rm.db, rm.exc # None), saved |-> d1,
             exc |-> rm.exc, creator |-> ru.uid]

\* _import_slots: MissionSlotGroup.objects.create(uid=...)
import_slot_group(d, mission_slug, group_uid) ==
    IF \E g \in d.slotGroups : g.uid = group_uid
    THEN [db |-> d, raised |-> TRUE]
    ELSE [db |-> [d EXCEPT !.slotGroups =
                      @ \cup {[uid |-> group_uid, mission |-> mission_slug]}],
          raised |-> FALSE]

\* _import_slots: one pass of the loop over group_data['slots']
import_slot(d, group_uid, slot_data) ==
    LET rc == IF Len(slot_data.restrictedCommunity) > 0
              THEN get_or_create_community(d, slot_data.restrictedCommunity[1])
              ELSE [db |-> d, raised |-> FALSE, uid |-> None]
        ru == IF rc.raised THEN rc
              ELSE IF Len(slot_data.assignee) > 0
              THEN get_or_create_user(rc.db, slot_data.assignee[1])
              ELSE [db |-> rc.db, raised |-> FALSE, uid |-> None]
        d2 == ru.db
    IN IF ru.raised THEN [db |-> d2, raised |-> TRUE]
       ELSE IF \E x \in d2.slots : x.uid = slot_data.uid
       THEN [db |-> d2, raised |-> TRUE]
       ELSE LET d3 == [d2 EXCEPT !.slots =
                           @ \cup {[uid |-> slot_data.uid,
                                    slot_group |-> group_uid,
                                    assignee |-> ru.uid,
                                    restricted_community |-> rc.uid]}]
            IN IF ru.uid # None /\ slot_data.registrationUid # None
               THEN IF \E r \in d3.registrations :
                           \/ r.uid = slot_data.registrationUid
                           \/ (r.user = ru.uid /\ r.slot = slot_data.uid)
                    THEN [db |-> d3, raised |-> TRUE]
                    ELSE [db |-> [d3 EXCEPT !.registrations =
                                      @ \cup {[uid |-> slot_data.registrationUid,
                                               user |-> ru.uid,
                                               slot |-> slot_data.uid]}],
                          raised |-> FALSE]
               ELSE [db |-> d3, raised |-> FALSE]

\* fetch_mission_data: a requests.RequestException becomes APIFetchError, any
\* other exception leaves the function as it is
fetch_mission_data(raised) ==
    IF raised = "RequestException" THEN "APIFetchError" ELSE raised

-----------------------------------------------------------------------------
(* management/commands/import_mission.py and routers/mission_import.py *)

MSG_FETCH == "Failed to fetch mission data"
MSG_EXISTS == "Mission with slug already exists"
MSG_CREATOR == "Creator user not found"
MSG_IMPORT_FAILED == "Failed to import mission"
MSG_ENDPOINT_FAILED == "Import failed"
MSG_SUCCESS == "Successfully imported mission"
MSG_DRY_RUN == "DRY RUN - No changes will be saved"
MSG_PREVIEW == "preview"

\* Command.handle: how a call that raised exc ends.  An exception other than
\* APIFetchError raised by the fetch is not caught.
command_result(exc, fetching) ==
    IF exc = None THEN [status |-> "success", message |-> MSG_SUCCESS]
    ELSE IF fetching
    THEN IF exc = "APIFetchError"
         THEN [status |-> "CommandError", message |-> MSG_FETCH]
         ELSE [status |-> "uncaught", message |-> exc]
    ELSE IF exc = "MissionAlreadyExistsError"
    THEN [status |-> "CommandError", message |-> MSG_EXISTS]
    ELSE IF exc = "CreatorNotFoundError"
    THEN [status |-> "CommandError", message |-> MSG_CREATOR]
    ELSE [status |-> "CommandError", message |-> MSG_IMPORT_FAILED]

\* import_mission_endpoint: the whole body is inside one try
endpoint_result(exc, fetching) ==
    IF exc = None THEN [status |-> "200", message |-> MSG_SUCCESS]
    ELSE IF exc = "APIFetchError" THEN [status |-> "400", message |-> MSG_FETCH]
    ELSE IF exc = "MissionAlreadyExistsError" THEN [status |-> "400", message |-> MSG_EXISTS]
    ELSE IF exc = "CreatorNotFoundError" THEN [status |-> "400", message |-> MSG_CREATOR]
    ELSE [status |-> "500", message |-> MSG_ENDPOINT_FAILED]

preview_result(kind) ==
    IF kind = "command"
    THEN [status |-> "success", message |-> MSG_DRY_RUN]
    ELSE [status |-> "200", message |-> MSG_PREVIEW]

result_of(kind, exc, fetching) ==
    IF kind = "command" THEN command_result(exc, fetching) ELSE endpoint_result(exc, fetching)

Outcome(kind, dry_run, fetched, slug, creator, exc, rolled_back, res) ==
    [kind |-> kind, dry_run |-> dry_run, fetched |-> fetched,
     slug |-> slug, creator |-> creator, exc |-> exc, rolled_back |-> rolled_back,
     status |-> res.status, message |-> res.message]

\* the call ends where the fetch raised
ImportFetchFails(kind, dry_run, raised) ==
    /\ outcome' = Outcome(kind, dry_run, FALSE, None, None, fetch_mission_data(raised), FALSE,
                          result_of(kind, fetch_mission_data(raised), TRUE))
    /\ imp' = Responded
    /\ UNCHANGED <<db, savepoint>>

\* the dry run: preview_import builds its answer from the fetched data alone
ImportPreview(kind, mission_data) ==
    /\ outcome' = Outcome(kind, TRUE, TRUE, mission_data.slug, None, None, FALSE,
                          preview_result(kind))
    /\ imp' = Responded
    /\ UNCHANGED <<db, savepoint>>

\* the call of import_mission up to _import_slots
ImportRun(kind, creator_uid, dry_run, mission_data) ==
    LET r == import_mission_begin(db, creator_uid, mission_data)
    IN /\ db' = r.db
       /\ IF r.exc = None
          THEN /\ savepoint' = <<r.saved>>
               /\ imp' = [pc |-> "slots", kind |-> kind, dry_run |-> dry_run,
                          slug |-> mission_data.slug, creator |-> r.creator,
                          group |-> None, groups |-> 0, nslots |-> 0]
               /\ UNCHANGED outcome
          ELSE /\ outcome' = Outcome(kind, dry_run, TRUE, mission_data.slug, r.creator, r.exc, FALSE,
                                     result_of(kind, r.exc, FALSE))
               /\ imp' = Responded
               /\ UNCHANGED savepoint

ImportRequest(kind, creator_uid, dry_run, fetched) ==
    /\ imp.pc = "idle"
    /\ IF fetched.raised # None THEN ImportFetchFails(kind, dry_run, fetched.raised)
       ELSE IF dry_run THEN ImportPreview(kind, fetched.mission_data)
       ELSE ImportRun(kind, creator_uid, dry_run, fetched.mission_data)

\* Command.handle that goes on to import_mission on a dry run
ImportMissionCommandSaves(creator_uid, dry_run, fetched) ==
    /\ imp.pc = "idle"
    /\ IF fetched.raised # None THEN ImportFetchFails("command", dry_run, fetched.raised)
       ELSE ImportRun("command", creator_uid, dry_run, fetched.mission_data)
    /\ UNCHANGED notImportVars

\* Command.handle
ImportMissionCommand(creator_uid, dry_run, fetched) ==
    /\ ImportRequest("command", creator_uid, dry_run, fetched)
    /\ UNCHANGED notImportVars

\* import_mission_endpoint, called by an authenticated user
ImportMissionEndpoint(creator_uid, dry_run, fetched) ==
    /\ ImportRequest("endpoint", creator_uid, dry_run, fetched)
    /\ UNCHANGED notImportVars

\* the import ends with exc raised inside the transaction
ImportRaises(d, exc) ==
    /\ db' = atomic_exit(savepoint[1], d, TRUE)
    /\ savepoint' = <<>>
    /\ imp' = Responded
    /\ outcome' = Outcome(imp.kind, imp.dry_run, TRUE, imp.slug, imp.creator, exc, TRUE,
                          result_of(imp.kind, exc, FALSE))

\* _import_slots: the next slot group of the data
ImportSlotGroup(group_uid) ==
    /\ imp.pc = "slots"
    /\ imp.groups < MaxGroups
    /\ LET r == import_slot_group(db, imp.slug, group_uid)
       IN IF r.raised
          THEN ImportRaises(r.db, "IntegrityError")
          ELSE /\ db' = r.db
               /\ imp' = [imp EXCEPT !.group = group_uid, !.groups = @ + 1, !.nslots = 0]
               /\ UNCHANGED <<savepoint, outcome>>
    /\ UNCHANGED notImportVars

\* _import_slots: the next slot of the current slot group
ImportSlot(slot_data) ==
    /\ imp.pc = "slots"
    /\ imp.group # None
    /\ imp.nslots < MaxSlots
    /\ LET r == import_slot(db, imp.group, slot_data)
       IN IF r.raised
          THEN ImportRaises(r.db, "IntegrityError")
          ELSE /\ db' = r.db
               /\ imp' = [imp EXCEPT !.nslots = @ + 1]
               /\ UNCHANGED <<savepoint, outcome>>
    /\ UNCHANGED notImportVars

\* _import_slots: an entry of the data lacks a key the loop reads
ImportMalformedEntry ==
    /\ imp.pc = "slots"
    /\ ImportRaises(db, "KeyError")
    /\ UNCHANGED notImportVars

\* _import_slots returns: the transaction commits and the caller reports
ImportCommit ==
    /\ imp.pc = "slots"
    /\ db' = atomic_exit(savepoint[1], db, FALSE)
    /\ savepoint' = <<>>
    /\ imp' = Responded
    /\ outcome' = Outcome(imp.kind, imp.dry_run, TRUE, imp.slug, imp.creator, None, FALSE,
                          result_of(imp.kind, None, FALSE))
    /\ UNCHANGED notImportVars

\* the caller has read the answer; the next call can come
ImportReturn ==
    /\ imp.pc = "responded"
    /\ imp' = Idle
    /\ outcome' = NoOutcome
    /\ UNCHANGED <<db, savepoint>>
    /\ UNCHANGED notImportVars

\* an empty database; the permission evaluator is not called
ImportInit ==
    /\ db = EmptyDb
    /\ savepoint = <<>>
    /\ imp = Idle
    /\ outcome = NoOutcome
    /\ tables = EmptyTables
    /\ response = NoResponse
    /\ requests = NoRequests
    /\ op = None
    /\ permissions = <<>>
    /\ target_permissions = None
    /\ parsed_permissions = None
    /\ granted = None

ImportNext ==
    \/ \E creator_uid \in UserUids \cup {None}, dry_run \in BOOLEAN, fetched \in Fetched :
            ImportMissionCommand(creator_uid, dry_run, fetched)
    \/ \E creator_uid \in UserUids \cup {None}, dry_run \in BOOLEAN, fetched \in Fetched :
            ImportMissionEndpoint(creator_uid, dry_run, fetched)
    \/ \E group_uid \in GroupUids : ImportSlotGroup(group_uid)
    \/ \E slot_data \in SlotData : ImportSlot(slot_data)
    \/ ImportMalformedEntry
    \/ ImportCommit
    \/ ImportReturn

SpecImport == ImportInit /\ [][ImportNext]_vars

-----------------------------------------------------------------------------
(* Properties of the permission evaluator *)

IsPrefix(s, t) == Len(s) <= Len(t) /\ SubSeq(t, 1, Len(s)) = s

StrTarget(s) == [type |-> "str", value |-> s]

\* the key paths of a tree, and the number of its nodes
RECURSIVE Paths(_)
Paths(d) ==
    UNION {{<<d[i].key>>} \cup {<<d[i].key>> \o q : q \in Paths(d[i].value)} :
           i \in DOMAIN d}

RECURSIVE NodeCount(_)
RECURSIVE NodeCountFrom(_, _)
NodeCountFrom(d, i) ==
    IF i > Len(d) THEN 0 ELSE 1 + NodeCount(d[i].value) + NodeCountFrom(d, i + 1)

NodeCount(d) == NodeCountFrom(d, 1)

\* the non-empty segment prefixes of the lower-cased, dot-split permissions
SegmentPrefixes(perms) ==
    UNION {{SubSeq(split(lower(perms[i]), DOT), 1, k) :
                k \in 1..Len(split(lower(perms[i]), DOT))} : i \in DOMAIN perms}

\* C1: a permission list that contains the bare `*` or `admin.superadmin`
\* grants every target, a single string or a list, whatever else it contains
\* and in whatever order.
C1_GlobalBypass ==
    (/\ op = "has_permission"
     /\ \E i \in DOMAIN permissions :
            permissions[i] = STAR \/ permissions[i] = ADMIN_SUPERADMIN)
    => granted = TRUE

C1_Witness ==
    /\ op = "has_permission"
    /\ permissions = <<<<"a", "d", "m", "i", "n", ".", "a">>, ADMIN_SUPERADMIN>>
    /\ target_permissions.type = "list"
    /\ target_permissions.value = <<<<"b">>>>
    /\ granted = TRUE

\* C2: a held permission s1...sk.* (k >= 1) grants every target that starts
\* with the segments s1...sk and has more than k segments, whatever else the
\* list contains and in whatever order.
C2_StarAtAnyLevel ==
    (/\ op = "has_permission"
     /\ target_permissions.type = "str"
     /\ \E i \in DOMAIN permissions :
            LET h == split(permissions[i], DOT)
                t == split(target_permissions.value, DOT)
                k == Len(h) - 1
            IN /\ k >= 1
               /\ h[Len(h)] = STAR
               /\ Len(t) > k
               /\ SubSeq(t, 1, k) = SubSeq(h, 1, k))
    => granted = TRUE

\* C3: a target whose segments are a prefix of (or equal to) the segments of
\* a held permission is granted.
C3_TargetExhaustedInTree ==
    (/\ op = "has_permission"
     /\ target_permissions.type = "str"
     /\ \E i \in DOMAIN permissions :
            IsPrefix(split(target_permissions.value, DOT), split(permissions[i], DOT)))
    => granted = TRUE

C3_Witness ==
    /\ op = "has_permission"
    /\ permissions = <<<<"a", ".", "b", ".", "a">>>>
    /\ target_permissions.type = "str"
    /\ target_permissions.value = <<"a", ".", "b">>
    /\ granted = TRUE

\* C4: for a non-empty list of targets, has_permission is true exactly when
\* it is true for at least one target of the list taken alone.
C4_ListIsAny ==
    (/\ op = "has_permission"
     /\ target_permissions.type = "list"
     /\ Len(target_permissions.value) > 0)
    => (granted = TRUE <=>
            \E i \in DOMAIN target_permissions.value :
                has_permission(permissions, StrTarget(target_permissions.value[i])))

C4_Witness ==
    /\ op = "has_permission"
    /\ permissions = <<<<"a", ".", "b">>>>
    /\ target_permissions.type = "list"
    /\ target_permissions.value = <<<<"b", ".", "a">>, <<"a", ".", "b">>>>
    /\ granted = TRUE

\* C5: the tree parse_permissions returns has exactly the non-empty segment
\* prefixes of the lower-cased, dot-split permissions as its key paths, one
\* node for each distinct prefix.
C5_TreeIsPrefixSet ==
    op = "parse_permissions"
    => /\ Paths(parsed_permissions) = SegmentPrefixes(permissions)
       /\ NodeCount(parsed_permissions) = Cardinality(SegmentPrefixes(permissions))

C5_Witness ==
    /\ op = "parse_permissions"
    /\ permissions = <<<<"a", ".", "b">>, <<"a", ".", "a">>>>
    /\ parsed_permissions =
           <<[key |-> <<"a">>,
              value |-> <<[key |-> <<"b">>, value |-> <<>>],
                          [key |-> <<"a">>, value |-> <<>>]>>]>>

\* C6: the result of has_permission does not change when the letter case of
\* the held permissions or of the target changes.
LowerList(l) == [i \in DOMAIN l |-> lower(l[i])]
UpperList(l) == [i \in DOMAIN l |-> upper(l[i])]
LowerTarget(t) ==
    [type |-> t.type,
     value |-> IF t.type = "list" THEN LowerList(t.value) ELSE lower(t.value)]
UpperTarget(t) ==
    [type |-> t.type,
     value |-> IF t.type = "list" THEN UpperList(t.value) ELSE upper(t.value)]

C6_CaseInsensitive ==
    op = "has_permission"
    => /\ granted = has_permission(LowerList(permissions), LowerTarget(target_permissions))
       /\ granted = has_permission(UpperList(permissions), UpperTarget(target_permissions))
       /\ granted = has_permission(permissions, UpperTarget(target_permissions))
       /\ granted = has_permission(UpperList(permissions), target_permissions)

C6_Witness ==
    /\ op = "has_permission"
    /\ permissions = <<<<"A", ".", "B", ".", "a">>>>
    /\ target_permissions.type = "str"
    /\ target_permissions.value = <<"a", ".", "B">>
    /\ granted = TRUE

-----------------------------------------------------------------------------
(* Properties of the mission import *)

\* a step that is a whole call of the command or the endpoint with dry_run set
DryRunStep ==
    /\ imp.pc = "idle"
    /\ \/ imp'.pc = "responded" /\ outcome'.dry_run
       \/ imp'.pc = "slots" /\ imp'.dry_run

\* C7: a dry-run import, by the command or by the endpoint, writes nothing:
\* missions, slot groups, slots, registrations, users and communities are
\* the same before and after.
C7_DryRunWritesNothing == [][DryRunStep => db' = db]_vars

C7_Witness ==
    /\ imp.pc = "responded"
    /\ outcome.dry_run
    /\ outcome.fetched
    /\ outcome.kind = "endpoint"
    /\ outcome.message = MSG_PREVIEW
    /\ outcome.slug = "m2"
    /\ db.users # {}
    /\ \A m \in db.missions : m.slug # "m2"

\* the first step of an import (not a dry run) of fetched data whose slug is
\* the slug of a stored mission
ExistingSlugStep ==
    /\ imp.pc = "idle"
    /\ \/ /\ imp'.pc = "responded"
          /\ outcome'.fetched
          /\ ~outcome'.dry_run
          /\ \E m \in db.missions : m.slug = outcome'.slug
       \/ /\ imp'.pc = "slots"
          /\ \E m \in db.missions : m.slug = imp'.slug

AlreadyExistsReported ==
    /\ imp'.pc = "responded"
    /\ outcome'.exc = "MissionAlreadyExistsError"
    /\ outcome'.message = MSG_EXISTS
    /\ outcome'.kind = "command" => outcome'.status = "CommandError"
    /\ outcome'.kind = "endpoint" => outcome'.status = "400"

NoMissionRowsWritten ==
    /\ db'.missions = db.missions
    /\ db'.slotGroups = db.slotGroups
    /\ db'.slots = db.slots

C9_FetchFailureIsCommandError ==
    [][(/\ imp.pc = "idle"
        /\ imp'.pc = "responded"
        /\ outcome'.kind = "command"
        /\ ~outcome'.fetched)
       => (/\ outcome'.status = "CommandError"
           /\ outcome'.message = MSG_FETCH
           /\ db' = db)]_vars

\* the rows of the import of the mission `slug`: the mission, its slot groups
\* and, as no slot stays without its group and no registration without its
\* slot, their slots and registrations
NoRowsOfImport(slug) ==
    /\ \A m \in db.missions : m.slug # slug
    /\ \A g \in db.slotGroups : g.mission # slug
    /\ \A x \in db.slots : \E g \in db.slotGroups : g.uid = x.slot_group
    /\ \A r \in db.registrations : \E x \in db.slots : x.uid = r.slot

\* C10: when import_mission fails after the Mission row was created, no
\* Mission, MissionSlotGroup, MissionSlot or MissionSlotRegistration row of
\* that import is left.
C10_ImportIsAtomic ==
    (imp.pc = "responded" /\ outcome.rolled_back) => NoRowsOfImport(outcome.slug)

C10_Witness ==
    /\ imp.pc = "responded"
    /\ outcome.rolled_back
    /\ outcome.exc = "IntegrityError"
    /\ outcome.slug = "m2"
    /\ \E m \in db.missions : m.slug = "m1"
    /\ db.slots # {}
    /\ db.registrations # {}

\* every foreign key of a stored row names a stored row
ReferentialIntegrity ==
    /\ \A u \in db.users :
           u.community # None => \E c \in db.communities : c.uid = u.community
    /\ \A m \in db.missions :
           /\ \E u \in db.users : u.uid = m.creator
           /\ \E c \in db.communities : c.uid = m.community
    /\ \A g \in db.slotGroups : \E m \in db.missions : m.slug = g.mission
    /\ \A x \in db.slots :
           /\ \E g \in db.slotGroups : g.uid = x.slot_group
           /\ x.assignee # None => \E u \in db.users : u.uid = x.assignee
           /\ x.restricted_community # None =>
                  \E c \in db.communities : c.uid = x.restricted_community
    /\ \A r \in db.registrations :
           /\ \E u \in db.users : u.uid = r.user
           /\ \E x \in db.slots : x.uid = r.slot

\* the unique columns hold one row each
UniqueKeys ==
    /\ \A c1, c2 \in db.communities : (c1.uid = c2.uid \/ c1.slug = c2.slug) => c1 = c2
    /\ \A u1, u2 \in db.users : u1.uid = u2.uid => u1 = u2
    /\ \A m1, m2 \in db.missions : m1.slug = m2.slug => m1 = m2
    /\ \A g1, g2 \in db.slotGroups : g1.uid = g2.uid => g1 = g2
    /\ \A x1, x2 \in db.slots : x1.uid = x2.uid => x1 = x2
    /\ \A r1, r2 \in db.registrations :
           (r1.uid = r2.uid \/ (r1.user = r2.user /\ r1.slot = r2.slot)) => r1 = r2

-----------------------------------------------------------------------------
(* The request handlers: rows, tokens and answers                           *)
(*                                                                          *)
(* The rows carry the columns the handlers decide on:                       *)
(*   communities   [uid, name, slug]            slug unique                 *)
(*   users         [uid, nickname, active]                                  *)
(*   permissions   [user, permission]           (user, permission) unique   *)
(*   applications  [uid, user, community, status]      (user, community)    *)
(*                                              unique                      *)
(*   missions      [slug, creator, required_dlcs]            slug unique    *)
(*   slotGroups    [uid, mission, order_number]                             *)
(*   slots         [uid, slot_group, order_number, required_dlcs, assignee, *)
(*                  restricted_community]                                   *)
(*   registrations [uid, user, slot]            (user, slot) unique         *)
(* request.auth is [user |-> uid, permissions |-> list of str].             *)

ADMIN_COMMUNITY ==
    <<"a", "d", "m", "i", "n", ".", "c", "o", "m", "m", "u", "n", "i", "t", "y">>

\* f'community.{slug}.founder'
community_founder(slug) ==
    <<"c", "o", "m", "m", "u", "n", "i", "t", "y", ".">> \o slug
        \o <<".", "f", "o", "u", "n", "d", "e", "r">>

\* django.utils.text.slugify, on names made of letters and single spaces:
\* lower case, and a hyphen for a space
slugify(name) ==
    [i \in DOMAIN name |-> IF name[i] = " " THEN "-" ELSE lower_char(name[i])]

\* default=uuid.uuid4: a uid no row of the table has
FreshUid(pool, rows) == CHOOSE u \in pool : \A r \in rows : r.uid # u

HasFreshUid(pool, rows) == \E u \in pool : \A r \in rows : r.uid # u

\* what a handler hands back: the tables it leaves, the status it answers
\* and the token in the body of the answer, <<>> when there is none
Answer(t, status) == [tables |-> t, status |-> status, token |-> <<>>]

AnswerWithToken(t, token) == [tables |-> t, status |-> "200", token |-> <<token>>]

-----------------------------------------------------------------------------
(* routers/community.py *)

CommunityUids == {"c1", "c2"}

\* two names with one slug, and a third
CommunityNames == {<<"A", "l">>, <<"a", "l">>, <<"B", "e">>}

CommunitySlugs == {slugify(n) : n \in CommunityNames}

ApplicationUids == {"a1", "a2", "a3"}

\* create_community without the permission check
create_community_unchecked(t, auth, payload) ==
    LET slug == slugify(payload.name)
    IN IF \E c \in t.communities : c.slug = slug
       THEN Answer(t, "500")
       ELSE Answer([t EXCEPT !.communities =
                        @ \cup {[uid |-> FreshUid(CommunityUids, t.communities),
                                 name |-> payload.name, slug |-> slug]}],
                   "200")

\* create_community: Community.objects.create raises IntegrityError on a
\* slug that is taken, and the handler does not catch it
create_community(t, auth, payload) ==
    IF ~has_permission(auth.permissions, StrTarget(ADMIN_COMMUNITY))
    THEN Answer(t, "403")
    ELSE LET slug == slugify(payload.name)
         IN IF \E c \in t.communities : c.slug = slug
            THEN Answer(t, "500")
            ELSE Answer([t EXCEPT !.communities =
                             @ \cup {[uid |-> FreshUid(CommunityUids, t.communities),
                                      name |-> payload.name, slug |-> slug]}],
                        "200")

\* update_community; payload.name is <<>> for None and <<name>> otherwise
update_community(t, auth, slug, payload) ==
    IF ~has_permission(auth.permissions, StrTarget(ADMIN_COMMUNITY))
    THEN Answer(t, "403")
    ELSE IF ~\E c \in t.communities : c.slug = slug
    THEN Answer(t, "404")
    ELSE Answer([t EXCEPT !.communities =
                     {IF c.slug = slug /\ payload.name # <<>>
                      THEN [c EXCEPT !.name = payload.name[1]]
                      ELSE c : c \in @}],
                "200")

\* delete_community; the applications of the community go with it (CASCADE)
delete_community(t, auth, slug) ==
    IF ~has_permission(auth.permissions, StrTarget(ADMIN_COMMUNITY))
    THEN Answer(t, "403")
    ELSE IF ~\E c \in t.communities : c.slug = slug
    THEN Answer(t, "404")
    ELSE LET gone == {c \in t.communities : c.slug = slug}
         IN Answer([t EXCEPT !.communities = @ \ gone,
                             !.applications =
                                 {a \in @ : \A c \in gone : a.community # c.uid}],
                   "200")

\* create_community_application without the check for an existing
\* application: the unique (user, community) stops the second create
create_community_application_unchecked(t, auth, slug) ==
    IF ~\E c \in t.communities : c.slug = slug
    THEN Answer(t, "404")
    ELSE IF ~\E u \in t.users : u.uid = auth.user
    THEN Answer(t, "404")
    ELSE LET community == CHOOSE c \in t.communities : c.slug = slug
         IN IF \E a \in t.applications :
                   a.user = auth.user /\ a.community = community.uid
            THEN Answer(t, "500")
            ELSE Answer([t EXCEPT !.applications =
                             @ \cup {[uid |-> FreshUid(ApplicationUids, t.applications),
                                      user |-> auth.user, community |-> community.uid,
                                      status |-> "submitted"]}],
                        "200")

\* create_community_application
create_community_application(t, auth, slug) ==
    IF ~\E c \in t.communities : c.slug = slug
    THEN Answer(t, "404")
    ELSE IF ~\E u \in t.users : u.uid = auth.user
    THEN Answer(t, "404")
    ELSE LET community == CHOOSE c \in t.communities : c.slug = slug
         IN IF \E a \in t.applications :
                   a.user = auth.user /\ a.community = community.uid
            THEN Answer(t, "400")
            ELSE Answer([t EXCEPT !.applications =
                             @ \cup {[uid |-> FreshUid(ApplicationUids, t.applications),
                                      user |-> auth.user, community |-> community.uid,
                                      status |-> "submitted"]}],
                        "200")

\* the tokens of the callers: no permission, admin.community, the founder
\* permission of the community `al`, and both
CommunityCallers ==
    [user : {"u1"},
     permissions : {<<>>, <<ADMIN_COMMUNITY>>,
                    <<community_founder(<<"a", "l">>)>>,
                    <<community_founder(<<"a", "l">>), ADMIN_COMMUNITY>>}]

\* the tokens of the users who apply to a community
Applicants == [user : {"u1", "u2"}, permissions : {<<>>}]

\* a handler answered: the tables it left and the request with its answer
Responds(handler, auth, args, r) ==
    /\ tables' = r.tables
    /\ response' = [handler |-> handler, auth |-> auth, args |-> args,
                    status |-> r.status, token |-> r.token]
    /\ UNCHANGED requests
    /\ UNCHANGED notApiVars

\* the handlers of this router run one request at a time

CreateCommunity(auth, payload) ==
    /\ requests = NoRequests
    /\ HasFreshUid(CommunityUids, tables.communities)
    /\ \E r \in {create_community(tables, auth, payload)} :
           Responds("create_community", auth, [name |-> payload.name], r)

UpdateCommunity(auth, slug, payload) ==
    /\ requests = NoRequests
    /\ \E r \in {update_community(tables, auth, slug, payload)} :
           Responds("update_community", auth, [slug |-> slug, name |-> payload.name], r)

DeleteCommunity(auth, slug) ==
    /\ requests = NoRequests
    /\ \E r \in {delete_community(tables, auth, slug)} :
           Responds("delete_community", auth, [slug |-> slug], r)

CreateCommunityApplication(auth, slug) ==
    /\ requests = NoRequests
    /\ HasFreshUid(ApplicationUids, tables.applications)
    /\ \E r \in {create_community_application(tables, auth, slug)} :
           Responds("create_community_application", auth, [slug |-> slug], r)

\* the users u1 and u2 have logged in; no community yet
CommunityInit ==
    /\ tables = [EmptyTables EXCEPT !.users =
                     {[uid |-> u, nickname |-> "n1", active |-> TRUE] : u \in {"u1", "u2"}}]
    /\ response = NoResponse
    /\ requests = NoRequests
    /\ op = None
    /\ permissions = <<>>
    /\ target_permissions = None
    /\ parsed_permissions = None
    /\ granted = None
    /\ db = EmptyDb
    /\ savepoint = <<>>
    /\ imp = Idle
    /\ outcome = NoOutcome

CommunityNext ==
    \/ \E auth \in CommunityCallers, name \in CommunityNames :
           CreateCommunity(auth, [name |-> name])
    \/ \E auth \in CommunityCallers, slug \in CommunitySlugs,
          name \in Optional({<<"a", "l">>}) :
           UpdateCommunity(auth, slug, [name |-> name])
    \/ \E auth \in CommunityCallers, slug \in CommunitySlugs :
           DeleteCommunity(auth, slug)
    \/ \E auth \in Applicants, slug \in CommunitySlugs :
           CreateCommunityApplication(auth, slug)

SpecCommunity == CommunityInit /\ [][CommunityNext]_vars

-----------------------------------------------------------------------------
(* auth.py generate_jwt, routers/auth.py, routers/user.py and create_mission *)
(* of routers/mission.py                                                     *)

ADMIN_USER == <<"a", "d", "m", "i", "n", ".", "u", "s", "e", "r">>

ADMIN_PERMISSION ==
    <<"a", "d", "m", "i", "n", ".", "p", "e", "r", "m", "i", "s", "s", "i", "o", "n">>

\* f'mission.{slug}.creator'
mission_creator(slug) ==
    <<"m", "i", "s", "s", "i", "o", "n", ".">> \o slug
        \o <<".", "c", "r", "e", "a", "t", "o", "r">>

\* the lists a query without ORDER BY can return for the rows S
Orderings(S) ==
    {l \in [1..Cardinality(S) -> S] : \A i, j \in DOMAIN l : l[i] = l[j] => i = j}

\* generate_jwt: the payloads it can sign for the user, one for each order
\* in which the database returns the user's Permission rows
generate_jwt(t, user_uid) ==
    {[user |-> user_uid, permissions |-> l] :
        l \in Orderings({p.permission : p \in {q \in t.permissions : q.user = user_uid}})}

\* refresh_token without the check of user.active
refresh_token_unchecked(t, auth) ==
    IF auth.user = None THEN {Answer(t, "401")}
    ELSE IF ~\E u \in t.users : u.uid = auth.user THEN {Answer(t, "404")}
    ELSE {AnswerWithToken(t, token) : token \in generate_jwt(t, auth.user)}

\* refresh_token: the answers it can give
refresh_token(t, auth) ==
    IF auth.user = None THEN {Answer(t, "401")}
    ELSE IF ~\E u \in t.users : u.uid = auth.user THEN {Answer(t, "404")}
    ELSE IF ~(CHOOSE u \in t.users : u.uid = auth.user).active
    THEN {Answer(t, "403")}
    ELSE {AnswerWithToken(t, token) : token \in generate_jwt(t, auth.user)}

\* UserUpdateSchema: the fields of the body the schema declares
UserUpdateSchema(body) == [nickname |-> body.nickname]

\* update_user; body is the JSON object of the request, a field is <<>>
\* when the body does not have it
update_user(t, auth, user_uid, body) ==
    LET payload == UserUpdateSchema(body)
    IN IF ~\E u \in t.users : u.uid = user_uid
       THEN Answer(t, "404")
       ELSE IF user_uid # auth.user
               /\ ~has_permission(auth.permissions, StrTarget(ADMIN_USER))
       THEN Answer(t, "403")
       ELSE Answer([t EXCEPT !.users =
                        {IF u.uid = user_uid /\ payload.nickname # <<>>
                         THEN [u EXCEPT !.nickname = payload.nickname[1]]
                         ELSE u : u \in @}],
                   "200")

\* create_user_permission: Permission.objects.get_or_create
create_user_permission(t, auth, user_uid, permission) ==
    IF ~has_permission(auth.permissions, StrTarget(ADMIN_PERMISSION))
    THEN Answer(t, "403")
    ELSE IF ~\E u \in t.users : u.uid = user_uid
    THEN Answer(t, "404")
    ELSE Answer([t EXCEPT !.permissions =
                     @ \cup {[user |-> user_uid, permission |-> permission]}],
                "200")

-----------------------------------------------------------------------------
(* models.py ArmaThreeDLC and validate_dlc_list of routers/mission.py *)

\* ArmaThreeDLC: the values of the choices
ArmaThreeDLC ==
    {"apex", "contact", "helicopters", "jets", "karts", "lawsofwar", "marksmen",
     "tanks", "tacops", "gm", "csla", "vn", "spe", "ws", "rf", "ef", "aow"}

\* ArmaThreeDLC.validate_dlc_list, called with a list
ArmaThreeDLC_validate_dlc_list(dlc_list) ==
    IF Len(dlc_list) = 0 THEN TRUE
    ELSE \A i \in DOMAIN dlc_list : dlc_list[i] \in ArmaThreeDLC

\* validate_dlc_list accepting every list
validate_dlc_list_accepts_all(dlc_list) == FALSE

\* validate_dlc_list: TRUE when it raises HttpError(400); dlc_list is <<>>
\* for None and <<list>> otherwise
validate_dlc_list(dlc_list) ==
    IF dlc_list = <<>> \/ Len(dlc_list[1]) = 0 THEN FALSE
    ELSE ~ArmaThreeDLC_validate_dlc_list(dlc_list[1])

\* create_mission: the answers it can give.  payload.slug and
\* payload.required_dlcs are <<>> for None.  The mission is created without
\* a community.
create_mission(t, auth, payload) ==
    IF ~\E u \in t.users : u.uid = auth.user THEN {Answer(t, "404")}
    ELSE IF validate_dlc_list(payload.required_dlcs) THEN {Answer(t, "400")}
    ELSE LET slug == IF payload.slug # <<>> /\ Len(payload.slug[1]) > 0
                     THEN payload.slug[1] ELSE slugify(payload.title)
             t1 == [t EXCEPT !.missions =
                        @ \cup {[slug |-> slug, creator |-> auth.user,
                                 required_dlcs |->
                                     IF payload.required_dlcs # <<>>
                                     THEN payload.required_dlcs[1] ELSE <<>>]}]
         IN IF \E m \in t.missions : m.slug = slug
            THEN {Answer(t, "500")}
            ELSE {AnswerWithToken(t1, token) : token \in generate_jwt(t1, auth.user)}

-----------------------------------------------------------------------------
(* The accounts: users, their permissions and tokens *)

AccountUsers == {"u1", "u2"}

\* the tokens presented: of u1 and u2 without permissions, and of u1 as
\* admin of users and as admin of permissions
AccountCallers ==
    {[user |-> "u1", permissions |-> <<>>],
     [user |-> "u2", permissions |-> <<>>],
     [user |-> "u1", permissions |-> <<ADMIN_USER>>],
     [user |-> "u1", permissions |-> <<ADMIN_PERMISSION>>]}

\* tokens refresh_token can also meet: of a user who was deleted, and one
\* without the entry 'user'
StaleCallers ==
    {[user |-> "u9", permissions |-> <<>>], [user |-> None, permissions |-> <<>>]}

\* the bodies of PATCH /users/{uid}: empty, a nickname, active false
UserUpdateBodies ==
    {[nickname |-> <<>>, active |-> <<>>],
     [nickname |-> <<"n2">>, active |-> <<>>],
     [nickname |-> <<>>, active |-> <<FALSE>>]}

MissionTitle == <<"O", "p">>

GrantablePermissions == {ADMIN_USER, mission_creator(slugify(MissionTitle))}

MissionPayloads ==
    [title : {MissionTitle}, slug : Optional({<<"o", "p">>}),
     required_dlcs : {<<>>}]

RefreshToken(auth) ==
    /\ requests = NoRequests
    /\ \E r \in refresh_token(tables, auth) :
           Responds("refresh_token", auth, [user |-> auth.user], r)

UpdateUser(auth, user_uid, body) ==
    /\ requests = NoRequests
    /\ \E r \in {update_user(tables, auth, user_uid, body)} :
           Responds("update_user", auth, [user_uid |-> user_uid, body |-> body], r)

CreateUserPermission(auth, user_uid, permission) ==
    /\ requests = NoRequests
    /\ \E r \in {create_user_permission(tables, auth, user_uid, permission)} :
           Responds("create_user_permission", auth,
                    [user_uid |-> user_uid, permission |-> permission], r)

CreateMission(auth, payload) ==
    /\ requests = NoRequests
    /\ \E r \in create_mission(tables, auth, payload) :
           Responds("create_mission", auth, payload, r)

\* the users u1 and u2 have logged in; an administrator may have
\* deactivated u2
AccountInit ==
    /\ \E a2 \in BOOLEAN :
           tables = [EmptyTables EXCEPT !.users =
                        {[uid |-> "u1", nickname |-> "n1", active |-> TRUE],
                         [uid |-> "u2", nickname |-> "n1", active |-> a2]}]
    /\ response = NoResponse
    /\ requests = NoRequests
    /\ op = None
    /\ permissions = <<>>
    /\ target_permissions = None
    /\ parsed_permissions = None
    /\ granted = None
    /\ db = EmptyDb
    /\ savepoint = <<>>
    /\ imp = Idle
    /\ outcome = NoOutcome

AccountNext ==
    \/ \E auth \in AccountCallers \cup StaleCallers : RefreshToken(auth)
    \/ \E auth \in AccountCallers, user_uid \in AccountUsers, body \in UserUpdateBodies :
           UpdateUser(auth, user_uid, body)
    \/ \E auth \in AccountCallers, user_uid \in AccountUsers,
          permission \in GrantablePermissions :
           CreateUserPermission(auth, user_uid, permission)
    \/ \E auth \in AccountCallers, payload \in MissionPayloads :
           CreateMission(auth, payload)

SpecAccount == AccountInit /\ [][AccountNext]_vars

-----------------------------------------------------------------------------
(* routers/mission.py: missions, slot groups and slots *)

ADMIN_MISSION == <<"a", "d", "m", "i", "n", ".", "m", "i", "s", "s", "i", "o", "n">>

HasMission(t, slug) == \E m \in t.missions : m.slug = slug

MissionOf(t, slug) == CHOOSE m \in t.missions : m.slug = slug

\* `not is_creator and not is_admin`
mission_forbidden(mission, auth) ==
    /\ mission.creator # auth.user
    /\ ~has_permission(auth.permissions, StrTarget(ADMIN_MISSION))

\* update_mission; payload.required_dlcs is <<>> for None
update_mission(t, auth, slug, payload) ==
    IF ~HasMission(t, slug) THEN Answer(t, "404")
    ELSE IF mission_forbidden(MissionOf(t, slug), auth) THEN Answer(t, "403")
    ELSE IF payload.required_dlcs # <<>> /\ validate_dlc_list(payload.required_dlcs)
    THEN Answer(t, "400")
    ELSE Answer([t EXCEPT !.missions =
                     {IF m.slug = slug /\ payload.required_dlcs # <<>>
                      THEN [m EXCEPT !.required_dlcs = payload.required_dlcs[1]]
                      ELSE m : m \in @}],
                "200")

\* the rows with order_number >= n moved up by one
shift_from(rows, n) ==
    {IF r.order_number >= n THEN [r EXCEPT !.order_number = @ + 1] ELSE r : r \in rows}

\* a move of the row `uid` from old_order to new_order that moves no other row
move_without_shift(rows, uid, old_order, new_order) ==
    {IF r.uid = uid THEN [r EXCEPT !.order_number = new_order] ELSE r : r \in rows}

\* the two bulk updates of update_mission_slot_group and update_mission_slot
\* on the rows of one mission or group, and the save of the moved row
move(rows, uid, old_order, new_order) ==
    {IF r.uid = uid THEN [r EXCEPT !.order_number = new_order]
     ELSE IF new_order > old_order
          THEN IF r.order_number > old_order /\ r.order_number <= new_order
               THEN [r EXCEPT !.order_number = @ - 1] ELSE r
          ELSE IF r.order_number >= new_order /\ r.order_number < old_order
               THEN [r EXCEPT !.order_number = @ + 1] ELSE r
     : r \in rows}

\* the rows with order_number > n moved down by one
shift_down_after(rows, n) ==
    {IF r.order_number > n THEN [r EXCEPT !.order_number = @ - 1] ELSE r : r \in rows}

SlotGroupUids == {"g1", "g2"}

MissionSlotUids == {"s1", "s2"}

create_mission_slot_group(t, auth, slug, data) ==
    IF ~HasMission(t, slug) THEN Answer(t, "404")
    ELSE IF mission_forbidden(MissionOf(t, slug), auth) THEN Answer(t, "403")
    ELSE LET new_order_number == data.insertAfter + 1
             mine == {g \in t.slotGroups : g.mission = slug}
         IN Answer([t EXCEPT !.slotGroups =
                        (@ \ mine) \cup shift_from(mine, new_order_number)
                        \cup {[uid |-> FreshUid(SlotGroupUids, t.slotGroups),
                               mission |-> slug,
                               order_number |-> new_order_number]}],
                   "200")

\* update_mission_slot_group whose bulk updates lack `mission=mission`
update_mission_slot_group_any_mission(t, auth, slug, slot_group_uid, data) ==
    IF ~HasMission(t, slug) THEN Answer(t, "404")
    ELSE IF mission_forbidden(MissionOf(t, slug), auth) THEN Answer(t, "403")
    ELSE IF ~\E g \in t.slotGroups : g.uid = slot_group_uid /\ g.mission = slug
    THEN Answer(t, "404")
    ELSE LET slot_group == CHOOSE g \in t.slotGroups : g.uid = slot_group_uid
         IN IF data.orderNumber # <<>> /\ data.orderNumber[1] # slot_group.order_number
            THEN Answer([t EXCEPT !.slotGroups =
                             move(@, slot_group_uid, slot_group.order_number,
                                  data.orderNumber[1])],
                        "200")
            ELSE Answer(t, "200")

\* data.orderNumber is <<>> for None
update_mission_slot_group(t, auth, slug, slot_group_uid, data) ==
    IF ~HasMission(t, slug) THEN Answer(t, "404")
    ELSE IF mission_forbidden(MissionOf(t, slug), auth) THEN Answer(t, "403")
    ELSE IF ~\E g \in t.slotGroups : g.uid = slot_group_uid /\ g.mission = slug
    THEN Answer(t, "404")
    ELSE LET slot_group == CHOOSE g \in t.slotGroups : g.uid = slot_group_uid
             mine == {g \in t.slotGroups : g.mission = slug}
         IN IF data.orderNumber # <<>> /\ data.orderNumber[1] # slot_group.order_number
            THEN Answer([t EXCEPT !.slotGroups =
                             (@ \ mine) \cup move(mine, slot_group_uid,
                                                  slot_group.order_number,
                                                  data.orderNumber[1])],
                        "200")
            ELSE Answer(t, "200")

\* the slots of the group go with it, and their registrations (CASCADE)
delete_mission_slot_group(t, auth, slug, slot_group_uid) ==
    IF ~HasMission(t, slug) THEN Answer(t, "404")
    ELSE IF mission_forbidden(MissionOf(t, slug), auth) THEN Answer(t, "403")
    ELSE IF ~\E g \in t.slotGroups : g.uid = slot_group_uid /\ g.mission = slug
    THEN Answer(t, "404")
    ELSE LET slot_group == CHOOSE g \in t.slotGroups : g.uid = slot_group_uid
             mine == {g \in t.slotGroups : g.mission = slug} \ {slot_group}
             gone == {x \in t.slots : x.slot_group = slot_group_uid}
         IN Answer([t EXCEPT !.slotGroups =
                        (@ \ (mine \cup {slot_group}))
                        \cup shift_down_after(mine, slot_group.order_number),
                             !.slots = @ \ gone,
                             !.registrations =
                                 {r \in @ : \A x \in gone : r.slot # x.uid}],
                   "200")

\* the body of the loop of create_mission_slots for one slot_data, on the
\* tables the earlier slot_data left; a status other than "200" is the
\* exception that ends the request.  slot_data.requiredDLCs and
\* slot_data.restrictedCommunityUid are <<>> for None.
create_one_slot(t, slug, slot_data) ==
    IF slot_data.requiredDLCs # <<>> /\ Len(slot_data.requiredDLCs[1]) > 0
       /\ validate_dlc_list(slot_data.requiredDLCs)
    THEN Answer(t, "400")
    ELSE IF ~\E g \in t.slotGroups : g.uid = slot_data.slotGroupUid /\ g.mission = slug
    THEN Answer(t, "404")
    ELSE LET new_order_number == slot_data.insertAfter + 1
             mine == {x \in t.slots : x.slot_group = slot_data.slotGroupUid}
             shifted == [t EXCEPT !.slots =
                             (@ \ mine) \cup shift_from(mine, new_order_number)]
         IN IF slot_data.restrictedCommunityUid # <<>>
               /\ ~\E c \in t.communities : c.uid = slot_data.restrictedCommunityUid[1]
            THEN Answer(shifted, "404")
            ELSE Answer([shifted EXCEPT !.slots =
                             @ \cup {[uid |-> FreshUid(MissionSlotUids, t.slots),
                                      slot_group |-> slot_data.slotGroupUid,
                                      order_number |-> new_order_number,
                                      required_dlcs |->
                                          IF slot_data.requiredDLCs # <<>>
                                          THEN slot_data.requiredDLCs[1] ELSE <<>>,
                                      assignee |-> None,
                                      restricted_community |->
                                          IF slot_data.restrictedCommunityUid # <<>>
                                          THEN slot_data.restrictedCommunityUid[1]
                                          ELSE None]}],
                        "200")

\* `for slot_data in data`, without a transaction around it
RECURSIVE create_slots_from(_, _, _)
create_slots_from(t, slug, data) ==
    IF Len(data) = 0 THEN Answer(t, "200")
    ELSE LET r == create_one_slot(t, slug, Head(data))
         IN IF r.status # "200" THEN r
            ELSE create_slots_from(r.tables, slug, Tail(data))

create_mission_slots(t, auth, slug, data) ==
    IF ~HasMission(t, slug) THEN Answer(t, "404")
    ELSE IF mission_forbidden(MissionOf(t, slug), auth) THEN Answer(t, "403")
    ELSE create_slots_from(t, slug, data)

\* data.requiredDLCs, data.restrictedCommunityUid and data.orderNumber are
\* <<>> for None
update_mission_slot(t, auth, slug, slot_uid, data) ==
    IF ~HasMission(t, slug) THEN Answer(t, "404")
    ELSE IF mission_forbidden(MissionOf(t, slug), auth) THEN Answer(t, "403")
    ELSE IF ~\E x \in t.slots :
                /\ x.uid = slot_uid
                /\ \E g \in t.slotGroups : g.uid = x.slot_group /\ g.mission = slug
    THEN Answer(t, "404")
    ELSE IF data.requiredDLCs # <<>> /\ validate_dlc_list(data.requiredDLCs)
    THEN Answer(t, "400")
    ELSE IF data.restrictedCommunityUid # <<>>
            /\ ~\E c \in t.communities : c.uid = data.restrictedCommunityUid[1]
    THEN Answer(t, "404")
    ELSE LET slot == CHOOSE x \in t.slots : x.uid = slot_uid
             mine == {x \in t.slots : x.slot_group = slot.slot_group}
             moved == IF data.orderNumber # <<>>
                         /\ data.orderNumber[1] # slot.order_number
                      THEN move(mine, slot_uid, slot.order_number, data.orderNumber[1])
                      ELSE mine
         IN Answer([t EXCEPT !.slots =
                        (@ \ mine) \cup
                        {IF x.uid = slot_uid
                         THEN [x EXCEPT !.required_dlcs =
                                            IF data.requiredDLCs # <<>>
                                            THEN data.requiredDLCs[1] ELSE @,
                                        !.restricted_community =
                                            IF data.restrictedCommunityUid # <<>>
                                            THEN data.restrictedCommunityUid[1] ELSE @]
                         ELSE x : x \in moved}],
                   "200")

delete_mission_slot(t, auth, slug, slot_uid) ==
    IF ~HasMission(t, slug) THEN Answer(t, "404")
    ELSE IF mission_forbidden(MissionOf(t, slug), auth) THEN Answer(t, "403")
    ELSE IF ~\E x \in t.slots :
                /\ x.uid = slot_uid
                /\ \E g \in t.slotGroups : g.uid = x.slot_group /\ g.mission = slug
    THEN Answer(t, "404")
    ELSE LET slot == CHOOSE x \in t.slots : x.uid = slot_uid
             mine == {x \in t.slots : x.slot_group = slot.slot_group} \ {slot}
         IN Answer([t EXCEPT !.slots =
                        (@ \ (mine \cup {slot}))
                        \cup shift_down_after(mine, slot.order_number),
                             !.registrations = {r \in @ : r.slot # slot_uid}],
                   "200")

MaxOrderNumber == 4

\* no order number of the tables has passed the bound
OrderNumbersBounded(t) ==
    \A row \in t.slotGroups \cup t.slots : row.order_number <= MaxOrderNumber

\* the handlers of this router that write missions, slot groups and slots,
\* one request at a time; of the body of a request the response keeps the
\* requiredDLCs and the orderNumber of a slot group

UpdateMission(auth, slug, payload) ==
    /\ requests = NoRequests
    /\ \E r \in {update_mission(tables, auth, slug, payload)} :
           Responds("update_mission", auth,
                    [slug |-> slug, required_dlcs |-> payload.required_dlcs], r)

CreateMissionSlotGroup(auth, slug, data) ==
    /\ requests = NoRequests
    /\ HasFreshUid(SlotGroupUids, tables.slotGroups)
    /\ \E r \in {create_mission_slot_group(tables, auth, slug, data)} :
           /\ OrderNumbersBounded(r.tables)
           /\ Responds("create_mission_slot_group", auth, [slug |-> slug], r)

UpdateMissionSlotGroup(auth, slug, slot_group_uid, data) ==
    /\ requests = NoRequests
    /\ \E r \in {update_mission_slot_group(tables, auth, slug, slot_group_uid, data)} :
           /\ OrderNumbersBounded(r.tables)
           /\ Responds("update_mission_slot_group", auth,
                    [slug |-> slug, slot_group_uid |-> slot_group_uid,
                     orderNumber |-> data.orderNumber], r)

DeleteMissionSlotGroup(auth, slug, slot_group_uid) ==
    /\ requests = NoRequests
    /\ \E r \in {delete_mission_slot_group(tables, auth, slug, slot_group_uid)} :
           Responds("delete_mission_slot_group", auth,
                    [slug |-> slug, slot_group_uid |-> slot_group_uid], r)

CreateMissionSlots(auth, slug, data) ==
    /\ requests = NoRequests
    /\ Cardinality({u \in MissionSlotUids : \A x \in tables.slots : x.uid # u})
           >= Len(data)
    /\ \E r \in {create_mission_slots(tables, auth, slug, data)} :
           /\ OrderNumbersBounded(r.tables)
           /\ Responds("create_mission_slots", auth,
                    [slug |-> slug,
                     requiredDLCs |-> [k \in DOMAIN data |-> data[k].requiredDLCs]], r)

UpdateMissionSlot(auth, slug, slot_uid, data) ==
    /\ requests = NoRequests
    /\ \E r \in {update_mission_slot(tables, auth, slug, slot_uid, data)} :
           /\ OrderNumbersBounded(r.tables)
           /\ Responds("update_mission_slot", auth,
                    [slug |-> slug, slot_uid |-> slot_uid,
                     requiredDLCs |-> data.requiredDLCs], r)

DeleteMissionSlot(auth, slug, slot_uid) ==
    /\ requests = NoRequests
    /\ \E r \in {delete_mission_slot(tables, auth, slug, slot_uid)} :
           Responds("delete_mission_slot", auth,
                    [slug |-> slug, slot_uid |-> slot_uid], r)

\* the tokens presented: of u1, who creates the mission, and of u2, who is
\* neither its creator nor an administrator of missions
MissionCallers ==
    {[user |-> "u1", permissions |-> <<>>], [user |-> "u2", permissions |-> <<>>]}

MissionSlug == slugify(MissionTitle)

-----------------------------------------------------------------------------
(* The required DLCs of missions and slots *)

\* the lists a request carries: None, the empty list, a list of the
\* whitelist and a list with an identifier that is not on it
DlcLists == {<<>>, <<<<>>>>, <<<<"apex">>>>, <<<<"apex", "mod">>>>}

DlcMissionPayloads == [title : {MissionTitle}, slug : {<<>>}, required_dlcs : DlcLists]

DlcSlotCreates ==
    [slotGroupUid : {"g1"}, insertAfter : {0}, requiredDLCs : DlcLists,
     restrictedCommunityUid : {<<>>}]

\* the bodies of POST /{slug}/slots: one slot, or a slot with a list of the
\* whitelist followed by a second slot
DlcSlotLists ==
    {<<a>> : a \in DlcSlotCreates}
    \cup {<<a, b>> : a \in {c \in DlcSlotCreates : c.requiredDLCs = <<<<"apex">>>>},
                     b \in DlcSlotCreates}

DlcSlotUpdates ==
    [requiredDLCs : DlcLists, restrictedCommunityUid : {<<>>}, orderNumber : {<<>>}]

\* the users u1 and u2 have logged in; there is no mission yet
DlcInit ==
    /\ tables = [EmptyTables EXCEPT !.users =
                    {[uid |-> "u1", nickname |-> "n1", active |-> TRUE],
                     [uid |-> "u2", nickname |-> "n1", active |-> TRUE]}]
    /\ response = NoResponse
    /\ requests = NoRequests
    /\ op = None
    /\ permissions = <<>>
    /\ target_permissions = None
    /\ parsed_permissions = None
    /\ granted = None
    /\ db = EmptyDb
    /\ savepoint = <<>>
    /\ imp = Idle
    /\ outcome = NoOutcome

DlcNext ==
    \/ \E auth \in MissionCallers, payload \in DlcMissionPayloads :
           CreateMission(auth, payload)
    \/ \E auth \in MissionCallers, payload \in [required_dlcs : DlcLists] :
           UpdateMission(auth, MissionSlug, payload)
    \/ \E auth \in MissionCallers :
           CreateMissionSlotGroup(auth, MissionSlug, [insertAfter |-> 0])
    \/ \E auth \in MissionCallers, data \in DlcSlotLists :
           CreateMissionSlots(auth, MissionSlug, data)
    \/ \E auth \in MissionCallers, slot_uid \in MissionSlotUids, data \in DlcSlotUpdates :
           UpdateMissionSlot(auth, MissionSlug, slot_uid, data)

SpecDlc == DlcInit /\ [][DlcNext]_vars

-----------------------------------------------------------------------------
(* The order of the slot groups of a mission and of the slots of a group *)

InsertAfters == {-2, 0, 2}

OrderNumbers == {0, 1, 3}

\* the bodies of POST /{slug}/slots: one slot for either group, with or
\* without a restricted community that does not exist, or two slots for g1
OrderSlotLists ==
    {<<a>> : a \in [slotGroupUid : SlotGroupUids, insertAfter : InsertAfters,
                    requiredDLCs : {<<>>}, restrictedCommunityUid : {<<>>}]}
    \cup {<<a>> : a \in [slotGroupUid : {"g1"}, insertAfter : {0},
                         requiredDLCs : {<<>>}, restrictedCommunityUid : {<<"c9">>}]}
    \cup {<<a, b>> : a, b \in [slotGroupUid : {"g1"}, insertAfter : {-2, 0},
                               requiredDLCs : {<<>>},
                               restrictedCommunityUid : {<<>>}]}

OrderSlotUpdates ==
    [requiredDLCs : {<<>>}, restrictedCommunityUid : {<<>>},
     orderNumber : Optional(OrderNumbers)]

\* u1 has created the mission; it has no slot groups
OrderInit ==
    /\ tables = [EmptyTables EXCEPT
                    !.users = {[uid |-> "u1", nickname |-> "n1", active |-> TRUE],
                               [uid |-> "u2", nickname |-> "n1", active |-> TRUE]},
                    !.missions = {[slug |-> MissionSlug, creator |-> "u1",
                                   required_dlcs |-> <<>>]}]
    /\ response = NoResponse
    /\ requests = NoRequests
    /\ op = None
    /\ permissions = <<>>
    /\ target_permissions = None
    /\ parsed_permissions = None
    /\ granted = None
    /\ db = EmptyDb
    /\ savepoint = <<>>
    /\ imp = Idle
    /\ outcome = NoOutcome

OrderNext ==
    \/ \E auth \in MissionCallers, insertAfter \in InsertAfters :
           CreateMissionSlotGroup(auth, MissionSlug, [insertAfter |-> insertAfter])
    \/ \E auth \in MissionCallers, slot_group_uid \in SlotGroupUids,
          orderNumber \in Optional(OrderNumbers) :
           UpdateMissionSlotGroup(auth, MissionSlug, slot_group_uid,
                                  [orderNumber |-> orderNumber])
    \/ \E auth \in MissionCallers, slot_group_uid \in SlotGroupUids :
           DeleteMissionSlotGroup(auth, MissionSlug, slot_group_uid)
    \/ \E auth \in MissionCallers, data \in OrderSlotLists :
           CreateMissionSlots(auth, MissionSlug, data)
    \/ \E auth \in MissionCallers, slot_uid \in MissionSlotUids,
          data \in OrderSlotUpdates :
           UpdateMissionSlot(auth, MissionSlug, slot_uid, data)
    \/ \E auth \in MissionCallers, slot_uid \in MissionSlotUids :
           DeleteMissionSlot(auth, MissionSlug, slot_uid)

SpecOrder == OrderInit /\ [][OrderNext]_vars

-----------------------------------------------------------------------------
(* routers/mission.py: the registrations for a slot, with requests that run *)
(* at the same time on several workers.  A request is a sequence of steps,  *)
(* one for each statement that writes and one for the reads before the      *)
(* first write; `requests` holds what a request in progress has read.       *)

MISSION_SLOT_ASSIGN ==
    <<"m", "i", "s", "s", "i", "o", "n", ".", "s", "l", "o", "t", ".",
      "a", "s", "s", "i", "g", "n">>

ADMIN_ALL == <<"a", "d", "m", "i", "n", ".", "*">>

\* has_permission(permissions, ['mission.slot.assign', 'admin.*'])
has_slot_assign(perms) ==
    has_permission(perms, [type |-> "list", value |-> <<MISSION_SLOT_ASSIGN, ADMIN_ALL>>])

Workers == {"w1", "w2"}

SlotRegistrationUids == {"r1", "r2"}

Busy(w) == \E q \in requests : q.worker = w

RequestOf(w) == CHOOSE q \in requests : q.worker = w

HasSlotOfMission(t, slug, slot_uid) ==
    /\ HasMission(t, slug)
    /\ \E x \in t.slots :
           /\ x.uid = slot_uid
           /\ \E g \in t.slotGroups : g.uid = x.slot_group /\ g.mission = slug

SlotOf(t, slot_uid) == CHOOSE x \in t.slots : x.uid = slot_uid

HasRegistration(t, registration_uid, slot_uid) ==
    \E r \in t.registrations : r.uid = registration_uid /\ r.slot = slot_uid

RegistrationOf(t, registration_uid) ==
    CHOOSE r \in t.registrations : r.uid = registration_uid

\* register_for_slot up to its create: the status it answers, "" when it
\* goes on to create the registration
register_for_slot_existing(t, auth, slug, slot_uid) ==
    IF ~\E u \in t.users : u.uid = auth.user THEN "404"
    ELSE IF ~HasSlotOfMission(t, slug, slot_uid) THEN "404"
    ELSE IF \E r \in t.registrations : r.user = auth.user /\ r.slot = slot_uid
    THEN "400"
    ELSE ""

\* MissionSlotRegistration.objects.create on a table without unique_together
MissionSlotRegistration_create_twice(t, user_uid, slot_uid) ==
    Answer([t EXCEPT !.registrations =
                @ \cup {[uid |-> FreshUid(SlotRegistrationUids, t.registrations),
                         user |-> user_uid, slot |-> slot_uid]}],
           "200")

\* MissionSlotRegistration.objects.create: the foreign keys and
\* unique_together make the insert fail, and nothing catches the error
MissionSlotRegistration_create(t, user_uid, slot_uid) ==
    IF \/ \E r \in t.registrations : r.user = user_uid /\ r.slot = slot_uid
       \/ ~\E u \in t.users : u.uid = user_uid
       \/ ~\E x \in t.slots : x.uid = slot_uid
    THEN Answer(t, "500")
    ELSE Answer([t EXCEPT !.registrations =
                     @ \cup {[uid |-> FreshUid(SlotRegistrationUids, t.registrations),
                              user |-> user_uid, slot |-> slot_uid]}],
                "200")

\* update_slot_registration up to its first write: the status it answers,
\* "" when it goes on to assign the slot
update_slot_registration_checks(t, auth, slug, slot_uid, registration_uid, data) ==
    IF ~\E u \in t.users : u.uid = auth.user THEN "404"
    ELSE IF ~HasSlotOfMission(t, slug, slot_uid) THEN "404"
    ELSE IF ~HasRegistration(t, registration_uid, slot_uid) THEN "404"
    ELSE IF MissionOf(t, slug).creator # auth.user /\ ~has_slot_assign(auth.permissions)
    THEN "403"
    ELSE IF ~data.confirmed THEN "200"
    ELSE IF SlotOf(t, slot_uid).assignee # None THEN "400"
    ELSE ""

\* slot.save() of the slot the request read, with its new assignee
slot_save(t, slot, assignee) ==
    [t EXCEPT !.slots = {x \in @ : x.uid # slot.uid}
                            \cup {[slot EXCEPT !.assignee = assignee]}]

\* registration.delete()
registration_delete(t, registration_uid) ==
    [t EXCEPT !.registrations = {r \in @ : r.uid # registration_uid}]

\* delete_slot_registration up to its delete
delete_slot_registration_checks(t, auth, slug, slot_uid, registration_uid) ==
    IF ~\E u \in t.users : u.uid = auth.user THEN "404"
    ELSE IF ~HasSlotOfMission(t, slug, slot_uid) THEN "404"
    ELSE IF ~HasRegistration(t, registration_uid, slot_uid) THEN "404"
    ELSE IF /\ RegistrationOf(t, registration_uid).user # auth.user
            /\ MissionOf(t, slug).creator # auth.user
            /\ ~has_slot_assign(auth.permissions)
    THEN "403"
    ELSE ""

\* the request a worker has in progress and what it has read
Request(w, handler, auth, slot, registration, stage) ==
    [worker |-> w, handler |-> handler, auth |-> auth, slot |-> slot,
     registration |-> registration, stage |-> stage]

NoRegistration == [uid |-> None, user |-> None, slot |-> None]

\* a worker answers its request
Answers(w, handler, auth, slot_uid, t, status) ==
    /\ tables' = t
    /\ response' = [handler |-> handler, auth |-> auth,
                    args |-> [slot |-> slot_uid], status |-> status,
                    token |-> <<>>]
    /\ requests' = {q \in requests : q.worker # w}
    /\ UNCHANGED notApiVars

\* a worker goes on with its request
Continues(q, t) ==
    /\ tables' = t
    /\ requests' = {p \in requests : p.worker # q.worker} \cup {q}
    /\ UNCHANGED response
    /\ UNCHANGED notApiVars

\* register_for_slot, lines 540-549
RegisterForSlot(w, auth, slug, slot_uid) ==
    /\ ~Busy(w)
    /\ Cardinality(tables.registrations)
           + Cardinality({q \in requests : q.handler = "register_for_slot"})
           < Cardinality(SlotRegistrationUids)
    /\ \E status \in {register_for_slot_existing(tables, auth, slug, slot_uid)} :
           IF status # ""
           THEN Answers(w, "register_for_slot", auth, slot_uid, tables, status)
           ELSE Continues(Request(w, "register_for_slot", auth,
                                  SlotOf(tables, slot_uid), NoRegistration,
                                  "create"),
                          tables)

\* register_for_slot, lines 552-571
RegisterForSlotCreate(w) ==
    /\ Busy(w)
    /\ RequestOf(w).handler = "register_for_slot"
    /\ \E r \in {MissionSlotRegistration_create(tables, RequestOf(w).auth.user,
                                                RequestOf(w).slot.uid)} :
           Answers(w, "register_for_slot", RequestOf(w).auth,
                   RequestOf(w).slot.uid, r.tables, r.status)

\* update_slot_registration, lines 577-602 and 622-634
UpdateSlotRegistration(w, auth, slug, slot_uid, registration_uid, data) ==
    /\ ~Busy(w)
    /\ \E status \in {update_slot_registration_checks(tables, auth, slug, slot_uid,
                                                      registration_uid, data)} :
           IF status # ""
           THEN Answers(w, "update_slot_registration", auth, slot_uid, tables, status)
           ELSE Continues(Request(w, "update_slot_registration", auth,
                                  SlotOf(tables, slot_uid),
                                  RegistrationOf(tables, registration_uid),
                                  "slot.save"),
                          tables)

\* update_slot_registration, lines 604-605
UpdateSlotRegistrationSave(w) ==
    /\ Busy(w)
    /\ RequestOf(w).handler = "update_slot_registration"
    /\ RequestOf(w).stage = "slot.save"
    /\ Continues([RequestOf(w) EXCEPT !.stage = "registration.delete"],
                 slot_save(tables, RequestOf(w).slot, RequestOf(w).registration.user))

\* update_slot_registration, lines 608-620
UpdateSlotRegistrationDelete(w) ==
    /\ Busy(w)
    /\ RequestOf(w).handler = "update_slot_registration"
    /\ RequestOf(w).stage = "registration.delete"
    /\ Answers(w, "update_slot_registration", RequestOf(w).auth,
               RequestOf(w).slot.uid,
               registration_delete(tables, RequestOf(w).registration.uid), "200")

\* delete_slot_registration, lines 640-654
DeleteSlotRegistration(w, auth, slug, slot_uid, registration_uid) ==
    /\ ~Busy(w)
    /\ \E status \in {delete_slot_registration_checks(tables, auth, slug, slot_uid,
                                                      registration_uid)} :
           IF status # ""
           THEN Answers(w, "delete_slot_registration", auth, slot_uid, tables, status)
           ELSE Continues(Request(w, "delete_slot_registration", auth,
                                  SlotOf(tables, slot_uid),
                                  RegistrationOf(tables, registration_uid),
                                  "registration.delete"),
                          tables)

\* delete_slot_registration, lines 656-658
DeleteSlotRegistrationDelete(w) ==
    /\ Busy(w)
    /\ RequestOf(w).handler = "delete_slot_registration"
    /\ Answers(w, "delete_slot_registration", RequestOf(w).auth,
               RequestOf(w).slot.uid,
               registration_delete(tables, RequestOf(w).registration.uid), "200")

\* the tokens presented: of u1, who created the mission, of u2, and of u2
\* with the permission to assign slots
RegistrationCallers ==
    {[user |-> "u1", permissions |-> <<>>],
     [user |-> "u2", permissions |-> <<>>],
     [user |-> "u2", permissions |-> <<MISSION_SLOT_ASSIGN>>]}

\* u1 has created the mission with one slot group and one slot; nobody has
\* registered
RegistrationInit ==
    /\ tables = [EmptyTables EXCEPT
                    !.users = {[uid |-> "u1", nickname |-> "n1", active |-> TRUE],
                               [uid |-> "u2", nickname |-> "n1", active |-> TRUE]},
                    !.missions = {[slug |-> MissionSlug, creator |-> "u1",
                                   required_dlcs |-> <<>>]},
                    !.slotGroups = {[uid |-> "g1", mission |-> MissionSlug,
                                     order_number |-> 0]},
                    !.slots = {[uid |-> "s1", slot_group |-> "g1",
                                order_number |-> 0, required_dlcs |-> <<>>,
                                assignee |-> None,
                                restricted_community |-> None]}]
    /\ response = NoResponse
    /\ requests = NoRequests
    /\ op = None
    /\ permissions = <<>>
    /\ target_permissions = None
    /\ parsed_permissions = None
    /\ granted = None
    /\ db = EmptyDb
    /\ savepoint = <<>>
    /\ imp = Idle
    /\ outcome = NoOutcome

RegistrationNext ==
    \/ \E w \in Workers, auth \in RegistrationCallers :
           RegisterForSlot(w, auth, MissionSlug, "s1")
    \/ \E w \in Workers : RegisterForSlotCreate(w)
    \/ \E w \in Workers, auth \in RegistrationCallers,
          registration_uid \in SlotRegistrationUids, confirmed \in BOOLEAN :
           UpdateSlotRegistration(w, auth, MissionSlug, "s1", registration_uid,
                                  [confirmed |-> confirmed])
    \/ \E w \in Workers : UpdateSlotRegistrationSave(w)
    \/ \E w \in Workers : UpdateSlotRegistrationDelete(w)
    \/ \E w \in Workers, auth \in RegistrationCallers,
          registration_uid \in SlotRegistrationUids :
           DeleteSlotRegistration(w, auth, MissionSlug, "s1", registration_uid)
    \/ \E w \in Workers : DeleteSlotRegistrationDelete(w)

SpecRegistration == RegistrationInit /\ [][RegistrationNext]_vars

-----------------------------------------------------------------------------
(* routers/mission.py: the registrations and the assignment of a slot, one *)
(* request at a time                                                         *)

\* register_for_slot, from its first statement to its return
register_for_slot(t, auth, slug, slot_uid) ==
    LET status == register_for_slot_existing(t, auth, slug, slot_uid)
    IN IF status # "" THEN Answer(t, status)
       ELSE MissionSlotRegistration_create(t, auth.user, slot_uid)

\* update_slot_registration without `registration.delete()`
update_slot_registration_keeps(t, auth, slug, slot_uid, registration_uid, data) ==
    LET status == update_slot_registration_checks(t, auth, slug, slot_uid,
                                                  registration_uid, data)
    IN IF status # "" THEN Answer(t, status)
       ELSE Answer(slot_save(t, SlotOf(t, slot_uid),
                             RegistrationOf(t, registration_uid).user),
                   "200")

\* update_slot_registration, from its first statement to its return
update_slot_registration(t, auth, slug, slot_uid, registration_uid, data) ==
    LET status == update_slot_registration_checks(t, auth, slug, slot_uid,
                                                  registration_uid, data)
    IN IF status # "" THEN Answer(t, status)
       ELSE Answer(registration_delete(
                       slot_save(t, SlotOf(t, slot_uid),
                                 RegistrationOf(t, registration_uid).user),
                       registration_uid),
                   "200")

\* delete_slot_registration, from its first statement to its return
delete_slot_registration(t, auth, slug, slot_uid, registration_uid) ==
    LET status == delete_slot_registration_checks(t, auth, slug, slot_uid,
                                                  registration_uid)
    IN IF status # "" THEN Answer(t, status)
       ELSE Answer(registration_delete(t, registration_uid), "200")

\* unassign_slot without the check of the caller
unassign_slot_unchecked(t, auth, slug, slot_uid) ==
    IF ~\E u \in t.users : u.uid = auth.user THEN Answer(t, "404")
    ELSE IF ~HasSlotOfMission(t, slug, slot_uid) THEN Answer(t, "404")
    ELSE IF SlotOf(t, slot_uid).assignee = None THEN Answer(t, "400")
    ELSE Answer(slot_save(t, SlotOf(t, slot_uid), None), "200")

\* unassign_slot: the slot without assignee is answered before the caller
\* is looked at
unassign_slot(t, auth, slug, slot_uid) ==
    IF ~\E u \in t.users : u.uid = auth.user THEN Answer(t, "404")
    ELSE IF ~HasSlotOfMission(t, slug, slot_uid) THEN Answer(t, "404")
    ELSE IF SlotOf(t, slot_uid).assignee = None THEN Answer(t, "400")
    ELSE IF /\ SlotOf(t, slot_uid).assignee # auth.user
            /\ MissionOf(t, slug).creator # auth.user
            /\ ~has_slot_assign(auth.permissions)
    THEN Answer(t, "403")
    ELSE Answer(slot_save(t, SlotOf(t, slot_uid), None), "200")

RegisterForSlotRequest(auth, slug, slot_uid) ==
    /\ requests = NoRequests
    /\ Cardinality(tables.registrations) < Cardinality(SlotRegistrationUids)
    /\ \E r \in {register_for_slot(tables, auth, slug, slot_uid)} :
           Responds("register_for_slot", auth,
                    [slug |-> slug, slot_uid |-> slot_uid], r)

UpdateSlotRegistrationRequest(auth, slug, slot_uid, registration_uid, data) ==
    /\ requests = NoRequests
    /\ \E r \in {update_slot_registration(tables, auth, slug, slot_uid,
                                          registration_uid, data)} :
           Responds("update_slot_registration", auth,
                    [slug |-> slug, slot_uid |-> slot_uid,
                     registration_uid |-> registration_uid,
                     confirmed |-> data.confirmed], r)

DeleteSlotRegistrationRequest(auth, slug, slot_uid, registration_uid) ==
    /\ requests = NoRequests
    /\ \E r \in {delete_slot_registration(tables, auth, slug, slot_uid,
                                          registration_uid)} :
           Responds("delete_slot_registration", auth,
                    [slug |-> slug, slot_uid |-> slot_uid,
                     registration_uid |-> registration_uid], r)

UnassignSlot(auth, slug, slot_uid) ==
    /\ requests = NoRequests
    /\ \E r \in {unassign_slot(tables, auth, slug, slot_uid)} :
           Responds("unassign_slot", auth,
                    [slug |-> slug, slot_uid |-> slot_uid], r)

\* the tokens presented: of u1, who created the mission, of u2 and u3, and
\* of u3 with the permission to assign slots
AssignmentCallers ==
    {[user |-> "u1", permissions |-> <<>>],
     [user |-> "u2", permissions |-> <<>>],
     [user |-> "u3", permissions |-> <<>>],
     [user |-> "u3", permissions |-> <<MISSION_SLOT_ASSIGN>>]}

\* u1 has created the mission with one slot group and two slots; nobody has
\* registered
AssignmentInit ==
    /\ tables = [EmptyTables EXCEPT
                    !.users = {[uid |-> "u1", nickname |-> "n1", active |-> TRUE],
                               [uid |-> "u2", nickname |-> "n1", active |-> TRUE],
                               [uid |-> "u3", nickname |-> "n1", active |-> TRUE]},
                    !.missions = {[slug |-> MissionSlug, creator |-> "u1",
                                   required_dlcs |-> <<>>]},
                    !.slotGroups = {[uid |-> "g1", mission |-> MissionSlug,
                                     order_number |-> 0]},
                    !.slots = {[uid |-> "s1", slot_group |-> "g1",
                                order_number |-> 0, required_dlcs |-> <<>>,
                                assignee |-> None,
                                restricted_community |-> None],
                               [uid |-> "s2", slot_group |-> "g1",
                                order_number |-> 1, required_dlcs |-> <<>>,
                                assignee |-> None,
                                restricted_community |-> None]}]
    /\ response = NoResponse
    /\ requests = NoRequests
    /\ op = None
    /\ permissions = <<>>
    /\ target_permissions = None
    /\ parsed_permissions = None
    /\ granted = None
    /\ db = EmptyDb
    /\ savepoint = <<>>
    /\ imp = Idle
    /\ outcome = NoOutcome

AssignmentNext ==
    \/ \E auth \in AssignmentCallers, slot_uid \in MissionSlotUids :
           RegisterForSlotRequest(auth, MissionSlug, slot_uid)
    \/ \E auth \in AssignmentCallers, slot_uid \in MissionSlotUids,
          registration_uid \in SlotRegistrationUids, confirmed \in BOOLEAN :
           UpdateSlotRegistrationRequest(auth, MissionSlug, slot_uid,
                                         registration_uid,
                                         [confirmed |-> confirmed])
    \/ \E auth \in AssignmentCallers, slot_uid \in MissionSlotUids,
          registration_uid \in SlotRegistrationUids :
           DeleteSlotRegistrationRequest(auth, MissionSlug, slot_uid,
                                         registration_uid)
    \/ \E auth \in AssignmentCallers, slot_uid \in MissionSlotUids :
           UnassignSlot(auth, MissionSlug, slot_uid)

SpecAssignment == AssignmentInit /\ [][AssignmentNext]_vars

-----------------------------------------------------------------------------
(* management/commands/merge_duplicate_users.py.  The user rows carry here  *)
(* [uid, nickname, active, imported, community], imported being             *)
(* steam_id.startswith('imported_').                                        *)

\* user.delete(): the rows that name the user go with it (CASCADE) or lose
\* the reference (SET_NULL)
User_delete(t, uid) ==
    LET missions_gone == {m \in t.missions : m.creator = uid}
        groups_gone == {g \in t.slotGroups : \E m \in missions_gone : g.mission = m.slug}
        slots_gone == {x \in t.slots : \E g \in groups_gone : x.slot_group = g.uid}
    IN [t EXCEPT
           !.users = {u \in @ : u.uid # uid},
           !.permissions = {p \in @ : p.user # uid},
           !.applications = {a \in @ : a.user # uid},
           !.missions = @ \ missions_gone,
           !.slotGroups = @ \ groups_gone,
           !.slots = {IF x.assignee = uid THEN [x EXCEPT !.assignee = None] ELSE x :
                      x \in @ \ slots_gone},
           !.registrations =
               {r \in @ : r.user # uid /\ \A x \in slots_gone : r.slot # x.uid}]

\* the body of the loop of _merge_users for one imported user
merge_imported_user(t, imported_uid, target_uid) ==
    LET imported_user == CHOOSE u \in t.users : u.uid = imported_uid
        target_user == CHOOSE u \in t.users : u.uid = target_uid
        t1 == IF imported_user.community # None /\ target_user.community = None
              THEN [t EXCEPT !.users =
                        (@ \ {target_user})
                        \cup {[target_user EXCEPT !.community = imported_user.community]}]
              ELSE t
        t2 == [t1 EXCEPT !.slots =
                   {IF x.assignee = imported_uid THEN [x EXCEPT !.assignee = target_uid]
                    ELSE x : x \in @}]
        t3 == [t2 EXCEPT !.registrations =
                   {r \in @ : r.user # imported_uid}
                   \cup {[r EXCEPT !.user = target_uid] :
                           r \in {q \in @ : /\ q.user = imported_uid
                                            /\ ~\E e \in @ : /\ e.user = target_uid
                                                             /\ e.slot = q.slot}}]
    IN User_delete(t3, imported_uid)

\* _merge_users: `for imported_user in imported_users`, in one transaction
RECURSIVE merge_users(_, _, _)
merge_users(t, imported_users, target_uid) ==
    IF Len(imported_users) = 0 THEN t
    ELSE merge_users(merge_imported_user(t, Head(imported_users), target_uid),
                     Tail(imported_users), target_uid)

ImportedUsers(t, nickname) == {u.uid : u \in {v \in t.users : v.nickname = nickname /\ v.imported}}

RealUsers(t, nickname) == {u.uid : u \in {v \in t.users : v.nickname = nickname /\ ~v.imported}}

\* the nicknames of the query `duplicates`
DuplicateNicknames(t) ==
    {n \in {u.nickname : u \in t.users} :
        Cardinality({u \in t.users : u.nickname = n}) > 1}

\* `len(real_users) == 1 and len(imported_users) > 0`
CanMerge(t, nickname) ==
    Cardinality(RealUsers(t, nickname)) = 1 /\ ImportedUsers(t, nickname) # {}

\* Command.handle: `for dup in duplicates`, the nicknames in the order
\* `duplicates`, the imported users of each in the order `imported`[nickname]
RECURSIVE handle_duplicates(_, _, _, _, _)
handle_duplicates(t, duplicates, imported, dry_run, auto_merge) ==
    IF Len(duplicates) = 0 THEN t
    ELSE LET nickname == Head(duplicates)
             t1 == IF CanMerge(t, nickname) /\ auto_merge /\ ~dry_run
                   THEN merge_users(t, imported[nickname],
                                    CHOOSE u \in RealUsers(t, nickname) : TRUE)
                   ELSE t
         IN handle_duplicates(t1, Tail(duplicates), imported, dry_run, auto_merge)

\* Command.handle; rows that tie in an ORDER BY come in any order
MergeDuplicateUsers(dry_run, auto_merge) ==
    /\ requests = NoRequests
    /\ \E duplicates \in Orderings(DuplicateNicknames(tables)) :
       \E imported \in [DuplicateNicknames(tables) ->
                           UNION {Orderings(ImportedUsers(tables, n)) :
                                      n \in DuplicateNicknames(tables)}] :
           /\ \A n \in DuplicateNicknames(tables) :
                  imported[n] \in Orderings(ImportedUsers(tables, n))
           /\ tables' = handle_duplicates(tables, duplicates, imported, dry_run, auto_merge)
           /\ response' = [handler |-> "merge_duplicate_users", auth |-> None,
                           args |-> [dry_run |-> dry_run, auto_merge |-> auto_merge],
                           status |-> "done", token |-> <<>>]
    /\ UNCHANGED requests
    /\ UNCHANGED notApiVars

MergeNicknames == {"n1", "n2"}

MergeSlotUids == {"s1", "s2"}

MergeUserUids == {"u1", "u2", "i1", "i2"}

\* the uid of the registration of a user for a slot
MergeRegistrationUid ==
    [u \in MergeUserUids |->
        [x \in MergeSlotUids |->
            IF u = "u1" THEN (IF x = "s1" THEN "r1" ELSE "r2")
            ELSE IF u = "u2" THEN (IF x = "s1" THEN "r3" ELSE "r4")
            ELSE IF u = "i1" THEN (IF x = "s1" THEN "r5" ELSE "r6")
            ELSE (IF x = "s1" THEN "r7" ELSE "r8")]]

\* u1 and u2 have logged in with Steam, i1 and i2 came with an import; i1 has
\* the nickname of u1.  A mission with one slot group and two slots was
\* created by u1 or imported with i1 as its creator; u1, i1 and i2 are
\* assigned to or registered for its slots.
MergeInit ==
    /\ \E n2 \in MergeNicknames, ni2 \in MergeNicknames,
          c1 \in {None, "c1"}, ci1 \in {None, "c2"},
          creator \in {"u1", "i1"},
          assignee \in [MergeSlotUids -> {None, "u1", "i1", "i2"}],
          registered \in SUBSET ({"u1", "i1", "i2"} \X MergeSlotUids) :
           tables = [EmptyTables EXCEPT
               !.communities = {[uid |-> "c1", name |-> <<"A">>, slug |-> <<"a">>],
                                [uid |-> "c2", name |-> <<"B">>, slug |-> <<"b">>]},
               !.users = {[uid |-> "u1", nickname |-> "n1", active |-> TRUE,
                           imported |-> FALSE, community |-> c1],
                          [uid |-> "u2", nickname |-> n2, active |-> TRUE,
                           imported |-> FALSE, community |-> None],
                          [uid |-> "i1", nickname |-> "n1", active |-> TRUE,
                           imported |-> TRUE, community |-> ci1],
                          [uid |-> "i2", nickname |-> ni2, active |-> TRUE,
                           imported |-> TRUE, community |-> None]},
               !.missions = {[slug |-> MissionSlug, creator |-> creator,
                              required_dlcs |-> <<>>]},
               !.slotGroups = {[uid |-> "g1", mission |-> MissionSlug,
                                order_number |-> 0]},
               !.slots = {[uid |-> x, slot_group |-> "g1",
                           order_number |-> IF x = "s1" THEN 0 ELSE 1,
                           required_dlcs |-> <<>>, assignee |-> assignee[x],
                           restricted_community |-> None] : x \in MergeSlotUids},
               !.registrations = {[uid |-> MergeRegistrationUid[p[1]][p[2]],
                                   user |-> p[1], slot |-> p[2]] : p \in registered}]
    /\ response = NoResponse
    /\ requests = NoRequests
    /\ op = None
    /\ permissions = <<>>
    /\ target_permissions = None
    /\ parsed_permissions = None
    /\ granted = None
    /\ db = EmptyDb
    /\ savepoint = <<>>
    /\ imp = Idle
    /\ outcome = NoOutcome

MergeNext ==
    \E dry_run \in BOOLEAN, auto_merge \in BOOLEAN : MergeDuplicateUsers(dry_run, auto_merge)

SpecMerge == MergeInit /\ [][MergeNext]_vars

-----------------------------------------------------------------------------
(* The slot groups of two missions *)

OtherMissionSlug == <<"a", "l">>

ReorderGroupUids == {"g3", "g4", "g5", "g6"}

\* u1 has created two missions; the first has three slot groups, created one
\* after the other at the end, the second has one, created after one that
\* was deleted since
ReorderInit ==
    /\ tables = [EmptyTables EXCEPT
                    !.users = {[uid |-> "u1", nickname |-> "n1", active |-> TRUE],
                               [uid |-> "u2", nickname |-> "n1", active |-> TRUE]},
                    !.missions = {[slug |-> MissionSlug, creator |-> "u1",
                                   required_dlcs |-> <<>>],
                                  [slug |-> OtherMissionSlug, creator |-> "u1",
                                   required_dlcs |-> <<>>]},
                    !.slotGroups =
                        {[uid |-> "g3", mission |-> MissionSlug, order_number |-> 0],
                         [uid |-> "g4", mission |-> MissionSlug, order_number |-> 1],
                         [uid |-> "g5", mission |-> MissionSlug, order_number |-> 2],
                         [uid |-> "g6", mission |-> OtherMissionSlug,
                          order_number |-> 1]}]
    /\ response = NoResponse
    /\ requests = NoRequests
    /\ op = None
    /\ permissions = <<>>
    /\ target_permissions = None
    /\ parsed_permissions = None
    /\ granted = None
    /\ db = EmptyDb
    /\ savepoint = <<>>
    /\ imp = Idle
    /\ outcome = NoOutcome

ReorderNext ==
    \/ \E auth \in MissionCallers, slug \in {MissionSlug, OtherMissionSlug},
          slot_group_uid \in ReorderGroupUids, orderNumber \in Optional(OrderNumbers) :
           UpdateMissionSlotGroup(auth, slug, slot_group_uid,
                                  [orderNumber |-> orderNumber])
    \/ \E auth \in MissionCallers, slug \in {MissionSlug, OtherMissionSlug},
          slot_group_uid \in ReorderGroupUids :
           DeleteMissionSlotGroup(auth, slug, slot_group_uid)

SpecReorder == ReorderInit /\ [][ReorderNext]_vars

-----------------------------------------------------------------------------
(* Properties of the community handlers *)

HasCommunity(t, slug) == \E c \in t.communities : c.slug = slug

CommunityOf(t, slug) == CHOOSE c \in t.communities : c.slug = slug

Carries(perms, permission) == \E i \in DOMAIN perms : perms[i] = permission

\* an update_community of a stored community, asking for a new name, by a
\* caller whose token carries the founder permission of that community
FounderUpdateStep ==
    /\ response'.handler = "update_community"
    /\ HasCommunity(tables, response'.args.slug)
    /\ response'.args.name # <<>>
    /\ Carries(response'.auth.permissions, community_founder(response'.args.slug))

\* C11: a caller whose token carries community.{slug}.founder updates that
\* community: update_community answers 200 and the name of the community is
\* the requested one.
C11_FounderUpdatesCommunity ==
    [][FounderUpdateStep =>
          /\ response'.status = "200"
          /\ CommunityOf(tables', response'.args.slug).name = response'.args.name[1]]_vars

\* a create, update or delete of a community by a caller whose token does
\* not satisfy the permission the handlers require
UnauthorizedCommunityStep ==
    /\ response'.handler \in {"create_community", "update_community", "delete_community"}
    /\ ~has_permission(response'.auth.permissions, StrTarget(ADMIN_COMMUNITY))

C13_DuplicateSlugIsConflict ==
    [][(/\ response'.handler = "create_community"
        /\ has_permission(response'.auth.permissions, StrTarget(ADMIN_COMMUNITY))
        /\ HasCommunity(tables, slugify(response'.args.name)))
       => (/\ response'.status = "409"
           /\ tables'.communities = tables.communities)]_vars

AtMostOneApplication(t) ==
    \A a, b \in t.applications :
        (a.user = b.user /\ a.community = b.community) => a = b

HasApplied(t, user, slug) ==
    /\ HasCommunity(t, slug)
    /\ \E a \in t.applications :
           a.user = user /\ a.community = CommunityOf(t, slug).uid

\* C14: every (user, community) pair has at most one application: the first
\* create_community_application creates one with status 'submitted', a later
\* one of the same user for the same community is answered 400 and changes
\* nothing.
C14_OneApplicationPerUserAndCommunity ==
    [][response'.handler = "create_community_application" =>
          /\ AtMostOneApplication(tables')
          /\ HasApplied(tables, response'.auth.user, response'.args.slug) =>
                 /\ response'.status = "400"
                 /\ tables' = tables
          /\ (/\ HasCommunity(tables, response'.args.slug)
              /\ ~HasApplied(tables, response'.auth.user, response'.args.slug)) =>
                 /\ response'.status = "200"
                 /\ \E a \in tables'.applications \ tables.applications :
                        /\ a.user = response'.auth.user
                        /\ a.community = CommunityOf(tables, response'.args.slug).uid
                        /\ a.status = "submitted"
                        /\ tables'.applications = tables.applications \cup {a}]_vars

C14_Witness ==
    /\ response.handler = "create_community_application"
    /\ response.status = "400"
    /\ HasApplied(tables, response.auth.user, response.args.slug)
    /\ Cardinality(tables.applications) >= 2

-----------------------------------------------------------------------------
(* Properties of the accounts *)

UserOf(t, uid) == CHOOSE u \in t.users : u.uid = uid

HasUser(t, uid) == \E u \in t.users : u.uid = uid

\* C15: refresh_token issues no token for a deactivated user: when the user
\* the presented token names has active = false, the answer is 403 and
\* carries no token.
C15_NoTokenForDeactivatedUser ==
    [][(/\ response'.handler = "refresh_token"
        /\ HasUser(tables, response'.auth.user)
        /\ ~UserOf(tables, response'.auth.user).active)
       => (/\ response'.status = "403"
           /\ response'.token = <<>>)]_vars

C15_Witness ==
    /\ response.handler = "refresh_token"
    /\ response.status = "403"
    /\ ~UserOf(tables, response.auth.user).active
    /\ \E p \in tables.permissions : p.user = response.auth.user

\* C16: an admin deactivates a user: a PATCH with the body {'active': false}
\* by a caller holding admin.user is answered 200 and the stored user's
\* active flag is false afterwards.
C16_AdminDeactivatesUser ==
    [][(/\ response'.handler = "update_user"
        /\ response'.args.body.active = <<FALSE>>
        /\ has_permission(response'.auth.permissions, StrTarget(ADMIN_USER))
        /\ HasUser(tables, response'.args.user_uid))
       => (/\ response'.status = "200"
           /\ ~UserOf(tables', response'.args.user_uid).active)]_vars

\* C19: the token create_mission returns carries mission.{slug}.creator for
\* the mission it created.
C19_TokenCarriesCreatorPermission ==
    [][(/\ response'.handler = "create_mission"
        /\ response'.status = "200")
       => \E m \in tables'.missions \ tables.missions :
              /\ response'.token # <<>>
              /\ Carries(response'.token[1].permissions, mission_creator(m.slug))]_vars

-----------------------------------------------------------------------------
(* Properties of the required DLCs *)

Whitelisted(list) == \A i \in DOMAIN list : list[i] \in ArmaThreeDLC

\* the requiredDLCs lists the request carried
ListsOf(resp) ==
    IF resp.handler \in {"create_mission", "update_mission"}
    THEN {resp.args.required_dlcs[i] : i \in DOMAIN resp.args.required_dlcs}
    ELSE IF resp.handler = "create_mission_slots"
    THEN UNION {{resp.args.requiredDLCs[k][i] : i \in DOMAIN resp.args.requiredDLCs[k]} :
                k \in DOMAIN resp.args.requiredDLCs}
    ELSE IF resp.handler = "update_mission_slot"
    THEN {resp.args.requiredDLCs[i] : i \in DOMAIN resp.args.requiredDLCs}
    ELSE {}

StoredDlcLists(t) ==
    {m.required_dlcs : m \in t.missions} \cup {x.required_dlcs : x \in t.slots}

\* the request passed the lookups and the permission check of its handler
\* and carried a list with an identifier that is not on the whitelist
NonWhitelistedStep ==
    /\ response' # response \/ tables' # tables
    /\ response'.handler \in {"create_mission", "update_mission",
                              "create_mission_slots", "update_mission_slot"}
    /\ response'.status \notin {"403", "404"}
    /\ \E list \in ListsOf(response') : ~Whitelisted(list)

\* C17: after any sequence of create_mission, update_mission,
\* create_mission_slots and update_mission_slot requests every stored
\* requiredDLCs list of a mission or a slot holds only identifiers of
\* ArmaThreeDLC, and a request that reaches the validation with a list
\* holding another identifier is answered 400 and leaves that list in no row.
C17_DlcWhitelist ==
    [][/\ \A list \in StoredDlcLists(tables') : Whitelisted(list)
       /\ NonWhitelistedStep =>
              /\ response'.status = "400"
              /\ \A list \in ListsOf(response') :
                     ~Whitelisted(list) => list \notin StoredDlcLists(tables')]_vars

\* a mission and a slot store a list of the whitelist, and the last request,
\* a create_mission_slots whose second slot carried another identifier, was
\* answered 400 after its first slot was stored
C17_Witness ==
    /\ \E m \in tables.missions : m.required_dlcs = <<"apex">>
    /\ \E x \in tables.slots : x.required_dlcs = <<"apex">>
    /\ response.handler = "create_mission_slots"
    /\ response.status = "400"
    /\ Len(response.args.requiredDLCs) = 2
    /\ ~Whitelisted(response.args.requiredDLCs[2][1])

-----------------------------------------------------------------------------
(* Properties of the order numbers *)

DistinctOrderNumbers(rows) ==
    \A a, b \in rows : a.order_number = b.order_number => a = b

\* C18: starting from a mission without slot groups, after any sequence of
\* create_mission_slot_group, update_mission_slot_group,
\* delete_mission_slot_group, create_mission_slots, update_mission_slot and
\* delete_mission_slot requests that run one after the other, the slot groups
\* of a mission have pairwise distinct order numbers and so have the slots
\* of a slot group.
C18_OrderNumbersDistinct ==
    /\ \A m \in tables.missions :
           DistinctOrderNumbers({g \in tables.slotGroups : g.mission = m.slug})
    /\ \A g \in tables.slotGroups :
           DistinctOrderNumbers({x \in tables.slots : x.slot_group = g.uid})

\* two slot groups and two slots of one group, after a request that moved
\* one of them
C18_Witness ==
    /\ Cardinality(tables.slotGroups) = 2
    /\ \E a, b \in tables.slots : a # b /\ a.slot_group = b.slot_group
    /\ response.handler \in {"update_mission_slot_group", "update_mission_slot"}
    /\ response.status = "200"

-----------------------------------------------------------------------------
(* Properties of the registrations *)

AtMostOneRegistration(t) ==
    \A a, b \in t.registrations : a.user = b.user /\ a.slot = b.slot => a = b

\* a register_for_slot for a slot of the mission arrives from a user who has
\* a registration on that slot, and is answered
RegistersAgainStep ==
    /\ response' # response
    /\ response'.handler = "register_for_slot"
    /\ requests \subseteq requests'
    /\ HasSlotOfMission(tables, MissionSlug, response'.args.slot)
    /\ \E r \in tables.registrations :
           r.user = response'.auth.user /\ r.slot = response'.args.slot

\* C20: after any sequence of register_for_slot, update_slot_registration and
\* delete_slot_registration requests, their steps interleaved in any way, a
\* user has at most one registration for a slot, and a register_for_slot that
\* finds a registration of its user for the slot is answered 400 and creates
\* nothing.
C20_OneRegistrationPerUserAndSlot ==
    [][/\ AtMostOneRegistration(tables')
       /\ RegistersAgainStep =>
              /\ response'.status = "400"
              /\ tables'.registrations = tables.registrations]_vars

\* two requests of one user found no registration and ran their creates: the
\* second was refused by the table, and one registration is stored
C20_Witness ==
    /\ response.handler = "register_for_slot"
    /\ response.status = "500"
    /\ \E r \in tables.registrations :
           r.user = response.auth.user /\ r.slot = response.args.slot

-----------------------------------------------------------------------------
(* Properties of a rejected import *)

\* a whole call of import_mission that ends with one of its two rejections
RejectedImportStep ==
    /\ imp.pc = "idle"
    /\ imp'.pc = "responded"
    /\ outcome'.exc \in {"MissionAlreadyExistsError", "CreatorNotFoundError"}

\* C29: an import that is rejected with MissionAlreadyExistsError or
\* CreatorNotFoundError leaves the whole database unchanged: no mission,
\* slot group, slot, user or community row is created or modified.
C29_RejectedImportWritesNothing == [][RejectedImportStep => db' = db]_vars

-----------------------------------------------------------------------------
(* Properties of the merge of duplicate users *)

\* the run of the command merges the imported users of `nickname`
MergesStep(nickname) ==
    /\ response'.handler = "merge_duplicate_users"
    /\ response'.args.auto_merge
    /\ ~response'.args.dry_run
    /\ nickname \in DuplicateNicknames(tables)
    /\ CanMerge(tables, nickname)

SlotsRegisteredBy(t, uids) == {r.slot : r \in {q \in t.registrations : q.user \in uids}}

\* C24: merging imported users into a real user transfers everything and
\* loses nothing: afterwards every slot that was assigned to one of the
\* imported users is assigned to the target user, the target holds a
\* registration on exactly the slots on which the target or one of the
\* imported users held one before, no (user, slot) pair has two
\* registrations, and the imported users no longer exist.
C24_MergeLosesNothing ==
    [][\A nickname \in MergeNicknames :
          MergesStep(nickname) =>
              LET target == CHOOSE u \in RealUsers(tables, nickname) : TRUE
                  imported == ImportedUsers(tables, nickname)
              IN /\ \A x \in tables.slots :
                        x.assignee \in imported =>
                            \E y \in tables'.slots :
                                y.uid = x.uid /\ y.assignee = target
                 /\ SlotsRegisteredBy(tables', {target})
                        = SlotsRegisteredBy(tables, imported \cup {target})
                 /\ \A a, b \in tables'.registrations :
                        a.user = b.user /\ a.slot = b.slot => a = b
                 /\ \A u \in tables'.users : u.uid \notin imported]_vars

-----------------------------------------------------------------------------
(* Further properties of the permission evaluator *)

\* the lists with the entries of l in another order
Reorderings(l) == {[i \in DOMAIN l |-> l[f[i]]] : f \in Orderings(DOMAIN l)}

\* C25: the result of has_permission does not depend on the order of the
\* permission list: for every list P, every permutation P' of P and every
\* target t, has_permission(P, t) = has_permission(P', t).
C25_OrderOfPermissionsIrrelevant ==
    op = "has_permission" =>
        \A other \in Reorderings(permissions) :
            has_permission(other, target_permissions) = granted

\* the held permission h justifies the target t: they agree on their first i
\* segments, and there t ends or h goes on with `*`
Justifies(h, t) ==
    LET H == split(lower(h), DOT)
        T == split(lower(t), DOT)
    IN \E i \in 0..Len(T) :
           /\ i <= Len(H)
           /\ SubSeq(H, 1, i) = SubSeq(T, 1, i)
           /\ \/ i = Len(T)
              \/ Len(H) > i /\ H[i + 1] = STAR

\* some permission starts with the segment `*`, or the permissions justify
\* the target 'admin.superadmin'
BypassApplies(perms) ==
    \E k \in DOMAIN perms :
        \/ Head(split(lower(perms[k]), DOT)) = STAR
        \/ Justifies(perms[k], ADMIN_SUPERADMIN)

TargetsOf(target) ==
    IF target.type = "list" THEN {target.value[i] : i \in DOMAIN target.value}
    ELSE {target.value}

\* C26: has_permission grants only with a justifying held permission: when
\* it returns True the global bypass applies, or some held permission agrees
\* with a target on their first i segments and then the target ends or the
\* permission has `*` as its next segment; a held permission that is a strict
\* prefix of the target does not grant it.
C26_GrantsAreJustified ==
    (op = "has_permission" /\ granted = TRUE) =>
        \/ BypassApplies(permissions)
        \/ \E t \in TargetsOf(target_permissions) :
               \E k \in DOMAIN permissions : Justifies(permissions[k], t)

\* 'b' and 'a.*' are held and 'a.b' is asked for and granted
C26_Witness ==
    /\ op = "has_permission"
    /\ target_permissions = StrTarget(<<"a", ".", "b">>)
    /\ permissions = <<<<"b">>, <<"a", ".", "*">>>>
    /\ granted = TRUE

-----------------------------------------------------------------------------
(* Properties of a rejected create_mission_slots *)

\* C28: create_mission_slots is all-or-nothing: when an entry of the request
\* is rejected (a non-whitelisted DLC, an unknown slot group or an unknown
\* restricted community), no slot of the request has been created and no
\* order number of an existing slot has been changed.
C28_CreateSlotsAllOrNothing ==
    [][(/\ response'.handler = "create_mission_slots"
        /\ response'.status \in {"400", "404"})
       => tables'.slots = tables.slots]_vars

-----------------------------------------------------------------------------
(* Properties of the reordering of slot groups *)

HasGroup(t, uid) == \E g \in t.slotGroups : g.uid = uid

GroupOf(t, uid) == CHOOSE g \in t.slotGroups : g.uid = uid

\* the groups other than `uid` keep their relative order from t to u
KeepsRelativeOrder(t, u, slug, uid) ==
    \A a, b \in {g \in t.slotGroups : g.mission = slug /\ g.uid # uid} :
        a.order_number < b.order_number =>
            /\ HasGroup(u, a.uid) /\ HasGroup(u, b.uid)
            /\ GroupOf(u, a.uid).order_number < GroupOf(u, b.uid).order_number

OtherMissionsUnchanged(t, u, slug) ==
    {g \in u.slotGroups : g.mission # slug} = {g \in t.slotGroups : g.mission # slug}

\* an update_mission_slot_group that was answered 200 and asked for an order
\* number other than the one the group had
MovesGroupStep ==
    /\ response'.handler = "update_mission_slot_group"
    /\ response'.status = "200"
    /\ response'.args.orderNumber # <<>>
    /\ HasGroup(tables, response'.args.slot_group_uid)
    /\ response'.args.orderNumber[1]
           # GroupOf(tables, response'.args.slot_group_uid).order_number

DeletesGroupStep ==
    /\ response'.handler = "delete_mission_slot_group"
    /\ response'.status = "200"
    /\ HasGroup(tables, response'.args.slot_group_uid)

\* C23: update_mission_slot_group with an orderNumber n other than the
\* group's current one sets the group's order number to n, shifts by exactly
\* one the groups of the same mission whose order number lies between the old
\* and the new position and no other, keeps the relative order of the other
\* groups of the mission and changes no group of another mission;
\* delete_mission_slot_group keeps the relative order of the remaining groups.
C23_ReorderingKeepsOrder ==
    [][/\ MovesGroupStep =>
              LET uid == response'.args.slot_group_uid
                  slug == response'.args.slug
                  n == response'.args.orderNumber[1]
                  old == GroupOf(tables, uid).order_number
              IN /\ GroupOf(tables', uid).order_number = n
                 /\ \A g \in {h \in tables.slotGroups : h.mission = slug /\ h.uid # uid} :
                        /\ HasGroup(tables', g.uid)
                        /\ GroupOf(tables', g.uid).order_number =
                               IF n > old /\ g.order_number > old /\ g.order_number <= n
                               THEN g.order_number - 1
                               ELSE IF n < old /\ g.order_number >= n
                                       /\ g.order_number < old
                               THEN g.order_number + 1
                               ELSE g.order_number
                 /\ KeepsRelativeOrder(tables, tables', slug, uid)
                 /\ OtherMissionsUnchanged(tables, tables', slug)
       /\ DeletesGroupStep =>
              /\ ~HasGroup(tables', response'.args.slot_group_uid)
              /\ KeepsRelativeOrder(tables, tables', response'.args.slug,
                                    response'.args.slot_group_uid)
              /\ OtherMissionsUnchanged(tables, tables', response'.args.slug)]_vars

\* g3 went from the first position to order number 3: g4 and g5, which lay
\* between, moved down by one, and g6 of the other mission stayed
C23_Witness ==
    /\ response.handler = "update_mission_slot_group"
    /\ response.status = "200"
    /\ response.args.slot_group_uid = "g3"
    /\ response.args.orderNumber = <<3>>
    /\ tables.slotGroups =
           {[uid |-> "g3", mission |-> MissionSlug, order_number |-> 3],
            [uid |-> "g4", mission |-> MissionSlug, order_number |-> 0],
            [uid |-> "g5", mission |-> MissionSlug, order_number |-> 1],
            [uid |-> "g6", mission |-> OtherMissionSlug, order_number |-> 1]}

-----------------------------------------------------------------------------
(* Properties of the assignment of a slot *)

\* the answered request addressed a slot of the mission, and a registration
\* for that slot where it names one
AddressedSlotExists ==
    HasSlotOfMission(tables, response'.args.slug, response'.args.slot_uid)

AddressedRegistrationExists ==
    /\ AddressedSlotExists
    /\ HasRegistration(tables, response'.args.registration_uid,
                       response'.args.slot_uid)

\* the caller created the mission or holds the permission to assign slots
CreatorOrAssigner ==
    \/ MissionOf(tables, response'.args.slug).creator = response'.auth.user
    \/ has_slot_assign(response'.auth.permissions)

AssignmentUnchanged ==
    /\ tables'.slots = tables.slots
    /\ tables'.registrations = tables.registrations

\* C21: update_slot_registration by the mission creator or a caller with a
\* permission to assign: confirmed=true on a slot without assignee makes the
\* registration's user the assignee of that slot and deletes exactly that
\* registration; confirmed=true on a slot with an assignee is answered 400
\* and changes neither an assignee nor a registration; confirmed=false
\* changes nothing.
C21_ConfirmationAssignsOrRejects ==
    [][(/\ response'.handler = "update_slot_registration"
        /\ AddressedRegistrationExists
        /\ CreatorOrAssigner) =>
           LET slot == SlotOf(tables, response'.args.slot_uid)
               registration == RegistrationOf(tables, response'.args.registration_uid)
           IN IF ~response'.args.confirmed
              THEN response'.status = "200" /\ AssignmentUnchanged
              ELSE IF slot.assignee # None
              THEN response'.status = "400" /\ AssignmentUnchanged
              ELSE /\ response'.status = "200"
                   /\ tables'.slots =
                          (tables.slots \ {slot})
                              \cup {[slot EXCEPT !.assignee = registration.user]}
                   /\ tables'.registrations = tables.registrations \ {registration}]_vars

\* the creator confirmed the registration of u2 for s1 while another
\* registration was stored, and that one is still there
C21_Witness ==
    /\ response.handler = "update_slot_registration"
    /\ response.status = "200"
    /\ response.args.confirmed
    /\ response.args.slot_uid = "s1"
    /\ response.auth.user = "u1"
    /\ SlotOf(tables, "s1").assignee = "u2"
    /\ tables.registrations # {}
    /\ ~\E r \in tables.registrations : r.uid = response.args.registration_uid

\* a caller of one of the three handlers who is neither creator nor holder
\* of a permission to assign, nor the owner of the registration
\* (delete_slot_registration), nor the assignee of the slot (unassign_slot)
OtherCallerStep ==
    \/ /\ response'.handler = "update_slot_registration"
       /\ AddressedRegistrationExists
       /\ ~CreatorOrAssigner
    \/ /\ response'.handler = "delete_slot_registration"
       /\ AddressedRegistrationExists
       /\ ~CreatorOrAssigner
       /\ RegistrationOf(tables, response'.args.registration_uid).user
              # response'.auth.user
    \/ /\ response'.handler = "unassign_slot"
       /\ AddressedSlotExists
       /\ ~CreatorOrAssigner
       /\ SlotOf(tables, response'.args.slot_uid).assignee # response'.auth.user

\* C22 as stated: every other caller of update_slot_registration,
\* delete_slot_registration and unassign_slot is answered 403, and no
\* assignee or registration changes.
C22_OtherCallersAnswered403 ==
    [][OtherCallerStep => response'.status = "403" /\ AssignmentUnchanged]_vars

\* C22: for every other caller no assignee and no registration changes; the
\* answer is 403, but unassign_slot answers 400 when the slot has no
\* assignee, whoever calls.
C22_OnlyAuthorizedCallersChangeAssignment ==
    [][OtherCallerStep =>
           /\ AssignmentUnchanged
           /\ response'.status =
                  IF /\ response'.handler = "unassign_slot"
                     /\ SlotOf(tables, response'.args.slot_uid).assignee = None
                  THEN "400" ELSE "403"]_vars

\* u3, without permissions, asked to unassign s1 from u2 and was refused
C22_Witness ==
    /\ response.handler = "unassign_slot"
    /\ response.status = "403"
    /\ response.auth = [user |-> "u3", permissions |-> <<>>]
    /\ response.args.slot_uid = "s1"
    /\ SlotOf(tables, "s1").assignee = "u2"

-----------------------------------------------------------------------------
(* Properties of confirmations that run at the same time *)

\* C27: of two update_slot_registration requests with confirmed=true for two
\* registrations on the same slot without assignee, running at the same
\* time, at most one succeeds: a confirmation that deletes a registration
\* leaves the user of that registration as the assignee of the slot.
C27_OneConfirmationWins ==
    [][(/\ response'.handler = "update_slot_registration"
        /\ response'.status = "200"
        /\ tables'.registrations # tables.registrations) =>
           \A r \in tables.registrations \ tables'.registrations :
               SlotOf(tables', r.slot).assignee = r.user]_vars

====
